---- MODULE Spec2Model ----
(***************************************************************************)
(* A model of the MeetingNote application: the coordinator (App), the      *)
(* note list (NoteList) and the note editor (NoteEditor).                  *)
(*                                                                         *)
(* Strings are sequences of one-character strings, so that trim, split,    *)
(* toLowerCase and includes are computed character by character.           *)
(* A character is one UTF-16 code unit, written as a one-character string. *)
(* A string of this module can hold the characters up to U+00FF but the    *)
(* grave accent (U+0060) and, of the others, those whose code point ends   *)
(* in a byte of 80 to FF (surrogate code units, and with them the          *)
(* characters beyond U+FFFF, it cannot). White space and letters outside   *)
(* that set are outside the model, but for the lower-case forms that       *)
(* toLowerCase makes of letters inside it: those are written by their code *)
(* point, as in "U+2D00".                                                  *)
(* Timestamps are ticks of a clock, all within one calendar day.           *)
(***************************************************************************)
EXTENDS Integers, Sequences, FiniteSets, TLC

VARIABLES
  notes,          \* App: useState<Note[]>
  persisted,      \* localStorage slot 'notes'
  selectedNote,   \* App: useState<Note | null>, the object handed to the editor
  selectedIsRef,  \* whether selectedNote is still the very object stored in notes
  formData,       \* NoteEditor: the draft {title, content, tags}
  now,            \* the clock read by new Date()
  nextId,         \* source of fresh identifiers (crypto.randomUUID)
  creates,        \* history: number of create-saves
  deletes,        \* history: number of confirmed deletes
  last,           \* history: the handler that ran last
  searchTerm,     \* NoteList: useState('')
  selectedTag,    \* NoteList: useState<string | null>
  isRecording,    \* NoteEditor: useState(false)
  session,        \* recognition.current: "none" (unsupported), "idle", "running"
  pending,        \* toggleRecording continuations waiting for the permission result
  permission,     \* the platform microphone permission
  mounted,        \* whether the NoteEditor component is mounted
  results         \* event.results of the speech session

vars == <<notes, persisted, selectedNote, selectedIsRef, formData, now, nextId,
          creates, deletes, last, searchTerm, selectedTag, isRecording, session,
          pending, permission, mounted, results>>

storeVars == <<notes, persisted, selectedNote, selectedIsRef, formData, now,
               nextId, creates, deletes>>
listVars == <<searchTerm, selectedTag>>
recVars == <<isRecording, session, pending, permission, mounted, results>>

(***************************************************************************)
(* Bounds of the model.                                                    *)
(***************************************************************************)
MaxCreates == 2
MaxTime == 1
MaxStored == 2
MaxPending == 2
MaxResults == 2
MaxSegLen == 2
MaxContentLen == 2

(***************************************************************************)
(* Strings.                                                                *)
(***************************************************************************)
EmptyStr == <<>>
Blank == <<" ">>
WhiteSpaceOnly == <<" ", "\n", "\t">>
Standup == <<"S", "t", "a", "n", "d", "u", "p">>
WeShippedX == <<"W", "e", " ", "s", "h", "i", "p", "p", "e", "d", " ", "X", ".">>
Meeting == <<"m", "e", "e", "t", "i", "n", "g">>
TagQ == <<"q">>
MeetingNotesPrefix ==
  <<"M", "e", "e", "t", "i", "n", "g", " ", "N", "o", "t", "e", "s", " ", "-", " ">>

\* new Date().toLocaleDateString('en-US', {...}): every tick of the model's clock
\* falls on the same calendar day
ToLocaleDateString(t) == <<"T", "o", "d", "a", "y">>

\* String.prototype.trim strips WhiteSpace and LineTerminator. Of those a string
\* can hold: space, tab, line feed, carriage return, form feed, and, written as
\* the characters themselves, vertical tab (U+000B), no-break space (U+00A0),
\* ogham space mark (U+1680) and zero width no-break space (U+FEFF)
WhiteSpace ==
  {" ", "\t", "\n", "\r", "\f", "", " ", " ", "﻿"}

IsSpace(c) == c \in WhiteSpace

RECURSIVE TrimStart(_)
TrimStart(s) ==
  IF s = <<>> THEN s
  ELSE IF IsSpace(Head(s)) THEN TrimStart(Tail(s)) ELSE s

RECURSIVE TrimEnd(_)
TrimEnd(s) ==
  IF s = <<>> THEN s
  ELSE IF IsSpace(s[Len(s)]) THEN TrimEnd(SubSeq(s, 1, Len(s) - 1)) ELSE s

TrimIdentity(s) == s

\* String.prototype.trim
Trim(s) == TrimEnd(TrimStart(s))

\* Array.prototype.includes on a sequence
Includes(seq, x) == \E i \in DOMAIN seq : seq[i] = x

(***************************************************************************)
(* The coordinator (App).                                                  *)
(***************************************************************************)
NoNote == [id |-> 0]

\* new Date(): a Date object for the clock's reading
NewDate(t) == [date |-> t]

\* Date.prototype.toISOString: the date as a string
ToISOString(d) == [iso |-> d.date]

\* JSON.stringify of a timestamp: a Date becomes its ISO string, a string (a date
\* that came out of JSON.parse) stays as it is
ToJSON(v) == IF DOMAIN v = {"date"} THEN ToISOString(v) ELSE v

\* JSON.stringify(notes)
JSONStringify(ns) ==
  [i \in DOMAIN ns |->
     [ns[i] EXCEPT !.createdAt = ToJSON(@), !.updatedAt = ToJSON(@)]]

\* the editor's fresh template
Template(t) ==
  [title |-> MeetingNotesPrefix \o ToLocaleDateString(t),
   content |-> EmptyStr,
   tags |-> <<Meeting>>]

\* the editor's draft for a selected note
DraftOf(note) == [title |-> note.title, content |-> note.content, tags |-> note.tags]

RandomUUIDConst(n) == 1

\* crypto.randomUUID(): an identifier no other note carries
RandomUUID(n) == n

MergeSnapshot(note, sel, data, t) ==
  [id |-> sel.id, title |-> data.title, content |-> data.content,
   createdAt |-> sel.createdAt, updatedAt |-> NewDate(t),
   favorite |-> sel.favorite, tags |-> data.tags]

\* { ...note, ...data, updatedAt: new Date() }
Merge(note, sel, data, t) ==
  [note EXCEPT !.title = data.title, !.content = data.content,
               !.tags = data.tags, !.updatedAt = NewDate(t)]

\* handleSaveNote, selected branch: notes.map(...)
UpdateNotes(ns, sel, data, t) ==
  [i \in DOMAIN ns |-> IF ns[i].id = sel.id THEN Merge(ns[i], sel, data, t) ELSE ns[i]]

\* tags: ['meeting', ...(data.tags || [])]
NewNoteTags(data) == <<Meeting>> \o data.tags

\* handleSaveNote, create branch: the new record
NewNote(id, data, t) ==
  [id |-> id, title |-> data.title, content |-> data.content,
   createdAt |-> NewDate(t), updatedAt |-> NewDate(t), favorite |-> FALSE,
   tags |-> NewNoteTags(data)]

RemoveKeepOnly(ns, id) == SelectSeq(ns, LAMBDA note : note.id = id)

\* notes.filter(note => note.id !== id)
RemoveNote(ns, id) == SelectSeq(ns, LAMBDA note : note.id # id)

SetFavorite(ns, id) ==
  [i \in DOMAIN ns |->
     IF ns[i].id = id THEN [ns[i] EXCEPT !.favorite = TRUE] ELSE ns[i]]

\* handleToggleFavorite: notes.map(...)
FlipFavorite(ns, id) ==
  [i \in DOMAIN ns |->
     IF ns[i].id = id THEN [ns[i] EXCEPT !.favorite = ~ns[i].favorite] ELSE ns[i]]

ValidIgnoringContent(data) == Trim(data.title) # EmptyStr

\* handleSubmit's validation: !(!title.trim() || !content.trim())
Valid(data) == Trim(data.title) # EmptyStr /\ Trim(data.content) # EmptyStr

(***************************************************************************)
(* What the user can type into the editor's fields.                        *)
(***************************************************************************)
TypedTitles == {Blank, Standup}
\* the content field is a textarea: it takes line breaks and tabs
TypedContents == {WhiteSpaceOnly, WeShippedX}
TypedTags == {<<" ", "q", " ">>, Blank}

Op(name, id) == [op |-> name, id |-> id, snapFavorite |-> FALSE]

\* useState<string | null>(null)
NullTag == <<"null">>

ListIdle == searchTerm = EmptyStr /\ selectedTag = NullTag
\* NoteEditor's recording state after mounting
RecMounted ==
  /\ isRecording = FALSE /\ pending = [query |-> 0, prompt |-> 0]
  /\ permission = "prompt" /\ mounted = TRUE /\ results = <<>>
RecIdle == RecMounted /\ session = "idle"

\* App and the editor's draft after mounting on an empty localStorage
InitStore ==
  /\ notes = <<>>
  /\ persisted = JSONStringify(<<>>)
  /\ selectedNote = NoNote
  /\ selectedIsRef = FALSE
  /\ formData = Template(0)
  /\ now = 0
  /\ nextId = 1
  /\ creates = 0
  /\ deletes = 0
  /\ last = Op("mount", 0)

\* App, NoteList and NoteEditor after mounting on an empty localStorage
Init == InitStore /\ ListIdle /\ RecIdle

\* time passes
Tick ==
  /\ now < MaxTime
  /\ now' = now + 1
  /\ last' = Op("tick", 0)
  /\ UNCHANGED <<notes, persisted, selectedNote, selectedIsRef, formData, nextId,
                 creates, deletes, listVars, recVars>>

\* the title input's onChange
SetTitle(t) ==
  /\ formData' = [formData EXCEPT !.title = t]
  /\ last' = Op("edit", 0)
  /\ UNCHANGED <<notes, persisted, selectedNote, selectedIsRef, now, nextId,
                 creates, deletes, listVars, recVars>>

\* the textarea's onChange
SetContent(c) ==
  /\ formData' = [formData EXCEPT !.content = c]
  /\ last' = Op("edit", 0)
  /\ UNCHANGED <<notes, persisted, selectedNote, selectedIsRef, now, nextId,
                 creates, deletes, listVars, recVars>>

\* addTag: Enter in the tag input holding newTag
AddTag(newTag) ==
  /\ Trim(newTag) # EmptyStr
  /\ formData' = IF ~Includes(formData.tags, Trim(newTag))
                  THEN [formData EXCEPT !.tags = @ \o <<Trim(newTag)>>]
                  ELSE formData
  /\ last' = Op("edit", 0)
  /\ UNCHANGED <<notes, persisted, selectedNote, selectedIsRef, now, nextId,
                 creates, deletes, listVars, recVars>>

\* removeTag
RemoveTag(tagToRemove) ==
  /\ Includes(formData.tags, tagToRemove)
  /\ formData' = [formData EXCEPT
                    !.tags = SelectSeq(@, LAMBDA tag : tag # tagToRemove)]
  /\ last' = Op("edit", 0)
  /\ UNCHANGED <<notes, persisted, selectedNote, selectedIsRef, now, nextId,
                 creates, deletes, listVars, recVars>>

\* onSelectNote(note) = setSelectedNote(note), then the editor's selection effect;
\* setting the state to the object it already holds changes nothing
SelectNote(i) ==
  /\ i \in DOMAIN notes
  /\ IF selectedIsRef /\ selectedNote.id = notes[i].id
     THEN UNCHANGED <<selectedNote, selectedIsRef, formData>>
     ELSE /\ selectedNote' = notes[i]
          /\ selectedIsRef' = TRUE
          /\ formData' = DraftOf(notes[i])
  /\ last' = Op("select", notes[i].id)
  /\ UNCHANGED <<notes, persisted, now, nextId, creates, deletes, listVars, recVars>>

\* handleClear: the clear button
HandleClear ==
  /\ formData' = Template(now)
  /\ selectedNote' = NoNote
  /\ selectedIsRef' = FALSE
  /\ last' = Op("clear", 0)
  /\ UNCHANGED <<notes, persisted, now, nextId, creates, deletes, listVars, recVars>>

\* handleSubmit, then handleSaveNote and handleClear, then the persistence effect
HandleSubmit ==
  /\ IF ~Valid(formData)
     THEN /\ last' = Op("rejected", selectedNote.id)
          /\ UNCHANGED storeVars
     ELSE /\ IF selectedNote # NoNote
             THEN /\ notes' = UpdateNotes(notes, selectedNote, formData, now)
                  /\ last' = [op |-> "update", id |-> selectedNote.id,
                              snapFavorite |-> selectedNote.favorite]
                  /\ UNCHANGED <<nextId, creates>>
             ELSE /\ nextId <= MaxCreates
                  /\ notes' = <<NewNote(RandomUUID(nextId), formData, now)>> \o notes
                  /\ nextId' = nextId + 1
                  /\ creates' = creates + 1
                  /\ last' = Op("create", RandomUUID(nextId))
          /\ persisted' = JSONStringify(notes')
          /\ selectedNote' = NoNote
          /\ selectedIsRef' = FALSE
          /\ formData' = Template(now)
          /\ UNCHANGED <<now, deletes>>
  /\ UNCHANGED <<listVars, recVars>>

\* handleDeleteNote(id) with the answer given to window.confirm
HandleDeleteNote(i, confirmed) ==
  /\ i \in DOMAIN notes
  /\ IF confirmed
     THEN /\ notes' = RemoveNote(notes, notes[i].id)
          /\ persisted' = JSONStringify(notes')
          /\ deletes' = deletes + 1
          /\ IF selectedNote.id = notes[i].id
             THEN /\ selectedNote' = NoNote
                  /\ selectedIsRef' = FALSE
                  /\ formData' = Template(now)
             ELSE UNCHANGED <<selectedNote, selectedIsRef, formData>>
          /\ last' = Op("delete", notes[i].id)
     ELSE /\ last' = Op("deleteDeclined", notes[i].id)
          /\ UNCHANGED <<notes, persisted, deletes, selectedNote, selectedIsRef,
                         formData>>
  /\ UNCHANGED <<now, nextId, creates, listVars, recVars>>

\* handleToggleFavorite(id), then the persistence effect
HandleToggleFavorite(i) ==
  /\ i \in DOMAIN notes
  /\ notes' = FlipFavorite(notes, notes[i].id)
  /\ persisted' = JSONStringify(notes')
  /\ selectedIsRef' = (selectedIsRef /\ selectedNote.id # notes[i].id)
  /\ last' = Op("toggle", notes[i].id)
  /\ UNCHANGED <<selectedNote, formData, now, nextId, creates, deletes,
                 listVars, recVars>>

\* the list is left as mounted, no search term and no tag selected, so every
\* note has its row and its buttons
Next ==
  \/ Tick
  \/ \E t \in TypedTitles : SetTitle(t)
  \/ \E c \in TypedContents : SetContent(c)
  \/ \E newTag \in TypedTags : AddTag(newTag)
  \/ \E tag \in {TagQ} : RemoveTag(tag)
  \/ \E i \in 1..MaxCreates : SelectNote(i)
  \/ HandleClear
  \/ HandleSubmit
  \/ \E i \in 1..MaxCreates, confirmed \in BOOLEAN : HandleDeleteNote(i, confirmed)
  \/ \E i \in 1..MaxCreates : HandleToggleFavorite(i)

Spec == Init /\ [][Next]_vars

\* the coordinator under a user who keeps the template's title and tags or blanks
\* the title
NextStore ==
  \/ Tick
  \/ \E t \in {Blank} : SetTitle(t)
  \/ \E c \in TypedContents : SetContent(c)
  \/ \E i \in 1..MaxCreates : SelectNote(i)
  \/ HandleClear
  \/ HandleSubmit
  \/ \E i \in 1..MaxCreates, confirmed \in BOOLEAN : HandleDeleteNote(i, confirmed)
  \/ \E i \in 1..MaxCreates : HandleToggleFavorite(i)

SpecStore == Init /\ [][NextStore]_vars

\* the coordinator under a user who creates notes, edits their tags and saves
\* them again, and toggles favorites
NextUpdate ==
  \/ Tick
  \/ \E c \in {WeShippedX} : SetContent(c)
  \/ \E newTag \in TypedTags : AddTag(newTag)
  \/ \E i \in 1..MaxCreates : SelectNote(i)
  \/ HandleSubmit
  \/ \E i \in 1..MaxCreates : HandleToggleFavorite(i)

SpecUpdate == Init /\ [][NextUpdate]_vars

(***************************************************************************)
(* The note list (NoteList): search and tag filter.                        *)
(***************************************************************************)
\* the letters toLowerCase changes, in code point order, and what it makes of
\* each, position by position
UpperCase ==
  <<"A", "B", "C", "D", "E", "F", "G", "H", "I", "J", "K", "L", "M", "N", "O",
    "P", "Q", "R", "S", "T", "U", "V", "W", "X", "Y", "Z", "À", "Á", "Â", "Ã",
    "Ä", "Å", "Æ", "Ç", "È", "É", "Ê", "Ë", "Ì", "Í", "Î", "Ï", "Ð", "Ñ", "Ò",
    "Ó", "Ô", "Õ", "Ö", "Ø", "Ù", "Ú", "Û", "Ü", "Ý", "Þ", "Ɓ", "Ƃ", "Ƅ", "Ɔ",
    "Ƈ", "Ɖ", "Ɗ", "Ƌ", "Ǝ", "Ə", "Ɛ", "Ƒ", "Ɠ", "Ɣ", "Ɩ", "Ɨ", "Ƙ", "Ɯ", "Ɲ",
    "Ɵ", "Ơ", "Ƣ", "Ƥ", "Ʀ", "Ƨ", "Ʃ", "Ƭ", "Ʈ", "Ư", "Ʊ", "Ʋ", "Ƴ", "Ƶ", "Ʒ",
    "Ƹ", "Ƽ", "Ǆ", "ǅ", "Ǉ", "ǈ", "Ǌ", "ǋ", "Ǎ", "Ǐ", "Ǒ", "Ǔ", "Ǖ", "Ǘ", "Ǚ",
    "Ǜ", "Ǟ", "Ǡ", "Ǣ", "Ǥ", "Ǧ", "Ǩ", "Ǫ", "Ǭ", "Ǯ", "Ǳ", "ǲ", "Ǵ", "Ƕ", "Ƿ",
    "Ǹ", "Ǻ", "Ǽ", "Ǿ", "Ά", "Έ", "Ή", "Ί", "Ό", "Ύ", "Ώ", "Α", "Β", "Γ", "Δ",
    "Ε", "Ζ", "Η", "Θ", "Ι", "Κ", "Λ", "Μ", "Ν", "Ξ", "Ο", "Π", "Ρ", "Σ", "Τ",
    "Υ", "Φ", "Χ", "Ψ", "Ω", "Ϊ", "Ϋ", "Ϗ", "Ϙ", "Ϛ", "Ϝ", "Ϟ", "Ϡ", "Ϣ", "Ϥ",
    "Ϧ", "Ϩ", "Ϫ", "Ϭ", "Ϯ", "ϴ", "Ϸ", "Ϲ", "Ϻ", "Ͻ", "Ͼ", "Ͽ", "Ҁ", "Ҋ", "Ҍ",
    "Ҏ", "Ґ", "Ғ", "Ҕ", "Җ", "Ҙ", "Қ", "Ҝ", "Ҟ", "Ҡ", "Ң", "Ҥ", "Ҧ", "Ҩ", "Ҫ",
    "Ҭ", "Ү", "Ұ", "Ҳ", "Ҵ", "Ҷ", "Ҹ", "Һ", "Ҽ", "Ҿ", "Ӏ", "Ӂ", "Ӄ", "Ӆ", "Ӈ",
    "Ӊ", "Ӌ", "Ӎ", "Ӑ", "Ӓ", "Ӕ", "Ӗ", "Ә", "Ӛ", "Ӝ", "Ӟ", "Ӡ", "Ӣ", "Ӥ", "Ӧ",
    "Ө", "Ӫ", "Ӭ", "Ӯ", "Ӱ", "Ӳ", "Ӵ", "Ӷ", "Ӹ", "Ӻ", "Ӽ", "Ӿ", "Ⴀ", "Ⴁ", "Ⴂ",
    "Ⴃ", "Ⴄ", "Ⴅ", "Ⴆ", "Ⴇ", "Ⴈ", "Ⴉ", "Ⴊ", "Ⴋ", "Ⴌ", "Ⴍ", "Ⴎ", "Ⴏ", "Ⴐ", "Ⴑ",
    "Ⴒ", "Ⴓ", "Ⴔ", "Ⴕ", "Ⴖ", "Ⴗ", "Ⴘ", "Ⴙ", "Ⴚ", "Ⴛ", "Ⴜ", "Ⴝ", "Ⴞ", "Ⴟ", "Ⴠ",
    "Ⴡ", "Ⴢ", "Ⴣ", "Ⴤ", "Ⴥ", "Ⴧ", "Ⴭ", "Ꭰ", "Ꭱ", "Ꭲ", "Ꭳ", "Ꭴ", "Ꭵ", "Ꭶ", "Ꭷ",
    "Ꭸ", "Ꭹ", "Ꭺ", "Ꭻ", "Ꭼ", "Ꭽ", "Ꭾ", "Ꭿ", "Ꮀ", "Ꮁ", "Ꮂ", "Ꮃ", "Ꮄ", "Ꮅ", "Ꮆ",
    "Ꮇ", "Ꮈ", "Ꮉ", "Ꮊ", "Ꮋ", "Ꮌ", "Ꮍ", "Ꮎ", "Ꮏ", "Ꮐ", "Ꮑ", "Ꮒ", "Ꮓ", "Ꮔ", "Ꮕ",
    "Ꮖ", "Ꮗ", "Ꮘ", "Ꮙ", "Ꮚ", "Ꮛ", "Ꮜ", "Ꮝ", "Ꮞ", "Ꮟ", "Ꮠ", "Ꮡ", "Ꮢ", "Ꮣ", "Ꮤ",
    "Ꮥ", "Ꮦ", "Ꮧ", "Ꮨ", "Ꮩ", "Ꮪ", "Ꮫ", "Ꮬ", "Ꮭ", "Ꮮ", "Ꮯ", "Ꮰ", "Ꮱ", "Ꮲ", "Ꮳ",
    "Ꮴ", "Ꮵ", "Ꮶ", "Ꮷ", "Ꮸ", "Ꮹ", "Ꮺ", "Ꮻ", "Ꮼ", "Ꮽ", "Ꮾ", "Ꮿ", "Ᏸ", "Ᏹ", "Ᏺ",
    "Ᏻ", "Ᏼ", "Ᏽ", "Ᲊ", "Ა", "Ბ", "Გ", "Დ", "Ე", "Ვ", "Ზ", "Თ", "Ი", "Კ", "Ლ",
    "Მ", "Ნ", "Ო", "Პ", "Ჟ", "Რ", "Ს", "Ტ", "Უ", "Ფ", "Ქ", "Ღ", "Ყ", "Შ", "Ჩ",
    "Ც", "Ძ", "Წ", "Ჭ", "Ხ", "Ჯ", "Ჰ", "Ჱ", "Ჲ", "Ჳ", "Ჴ", "Ჵ", "Ჶ", "Ჷ", "Ჸ",
    "Ჹ", "Ჺ", "Ჽ", "Ჾ", "Ჿ", "Ẁ", "Ẃ", "Ẅ", "Ẇ", "Ẉ", "Ẋ", "Ẍ", "Ẏ", "Ẑ", "Ẓ",
    "Ẕ", "ẞ", "Ạ", "Ả", "Ấ", "Ầ", "Ẩ", "Ẫ", "Ậ", "Ắ", "Ằ", "Ẳ", "Ẵ", "Ặ", "Ẹ",
    "Ẻ", "Ẽ", "Ế", "Ề", "Ể", "Ễ", "Ệ", "Ỉ", "Ị", "Ọ", "Ỏ", "Ố", "Ồ", "Ổ", "Ỗ",
    "Ộ", "Ớ", "Ờ", "Ở", "Ỡ", "Ợ", "Ụ", "Ủ", "Ứ", "Ừ", "Ử", "Ữ", "Ự", "Ỳ", "Ỵ",
    "Ỷ", "Ỹ", "Ỻ", "Ỽ", "Ỿ", "ᾈ", "ᾉ", "ᾊ", "ᾋ", "ᾌ", "ᾍ", "ᾎ", "ᾏ", "ᾘ", "ᾙ",
    "ᾚ", "ᾛ", "ᾜ", "ᾝ", "ᾞ", "ᾟ", "ᾨ", "ᾩ", "ᾪ", "ᾫ", "ᾬ", "ᾭ", "ᾮ", "ᾯ", "Ᾰ",
    "Ᾱ", "Ὰ", "Ά", "ᾼ", "Ὲ", "Έ", "Ὴ", "Ή", "ῌ", "Ῐ", "Ῑ", "Ὶ", "Ί", "Ῠ", "Ῡ",
    "Ὺ", "Ύ", "Ῥ", "Ὸ", "Ό", "Ὼ", "Ώ", "ῼ", "Ↄ", "Ⓐ", "Ⓑ", "Ⓒ", "Ⓓ", "Ⓔ", "Ⓕ",
    "Ⓖ", "Ⓗ", "Ⓘ", "Ⓙ", "Ⓚ", "Ⓛ", "Ⓜ", "Ⓝ", "Ⓞ", "Ⓟ", "Ⓠ", "Ⓡ", "Ⓢ", "Ⓣ", "Ⓤ",
    "Ⓥ", "Ⓦ", "Ⓧ", "Ⓨ", "Ⓩ", "Ⲁ", "Ⲃ", "Ⲅ", "Ⲇ", "Ⲉ", "Ⲋ", "Ⲍ", "Ⲏ", "Ⲑ", "Ⲓ",
    "Ⲕ", "Ⲗ", "Ⲙ", "Ⲛ", "Ⲝ", "Ⲟ", "Ⲡ", "Ⲣ", "Ⲥ", "Ⲧ", "Ⲩ", "Ⲫ", "Ⲭ", "Ⲯ", "Ⲱ",
    "Ⲳ", "Ⲵ", "Ⲷ", "Ⲹ", "Ⲻ", "Ⲽ", "Ⲿ", "Ⳁ", "Ⳃ", "Ⳅ", "Ⳇ", "Ⳉ", "Ⳋ", "Ⳍ", "Ⳏ",
    "Ⳑ", "Ⳓ", "Ⳕ", "Ⳗ", "Ⳙ", "Ⳛ", "Ⳝ", "Ⳟ", "Ⳡ", "Ⳣ", "Ⳬ", "Ⳮ", "Ⳳ", "Ꚁ", "Ꚃ",
    "Ꚅ", "Ꚇ", "Ꚉ", "Ꚋ", "Ꚍ", "Ꚏ", "Ꚑ", "Ꚓ", "Ꚕ", "Ꚗ", "Ꚙ", "Ꚛ", "Ꞁ", "Ꞃ", "Ꞅ",
    "Ꞇ", "Ꞌ", "Ɥ", "Ꞑ", "Ꞓ", "Ꞗ", "Ꞙ", "Ꞛ", "Ꞝ", "Ꞟ", "Ꞡ", "Ꞣ", "Ꞥ", "Ꞧ", "Ꞩ",
    "Ɦ", "Ɜ", "Ɡ", "Ɬ", "Ɪ", "Ʞ", "Ʇ", "Ʝ", "Ꭓ", "Ꞵ", "Ꞷ", "Ꞹ", "Ꞻ", "Ꞽ", "Ꞿ",
    "Ꟁ", "Ꟃ", "Ꞔ", "Ʂ", "Ᶎ", "Ꟈ", "Ꟊ", "Ɤ", "Ꟍ", "꟎", "Ꟑ", "꟒", "꟔", "Ꟗ", "Ꟙ",
    "Ꟛ", "Ƛ", "Ꟶ">>

LowerCase ==
  <<"a", "b", "c", "d", "e", "f", "g", "h", "i", "j", "k", "l", "m", "n", "o",
    "p", "q", "r", "s", "t", "u", "v", "w", "x", "y", "z", "à", "á", "â", "ã",
    "ä", "å", "æ", "ç", "è", "é", "ê", "ë", "ì", "í", "î", "ï", "ð", "ñ", "ò",
    "ó", "ô", "õ", "ö", "ø", "ù", "ú", "û", "ü", "ý", "þ", "U+0253", "ƃ", "ƅ",
    "U+0254", "ƈ", "U+0256", "U+0257", "ƌ", "ǝ", "U+0259", "U+025B", "ƒ",
    "U+0260", "U+0263", "U+0269", "U+0268", "ƙ", "U+026F", "U+0272", "U+0275",
    "ơ", "ƣ", "ƥ", "ʀ", "ƨ", "ʃ", "ƭ", "ʈ", "ư", "ʊ", "ʋ", "ƴ", "ƶ", "ʒ", "ƹ",
    "ƽ", "ǆ", "ǆ", "ǉ", "ǉ", "ǌ", "ǌ", "ǎ", "ǐ", "ǒ", "ǔ", "ǖ", "ǘ", "ǚ", "ǜ",
    "ǟ", "ǡ", "ǣ", "ǥ", "ǧ", "ǩ", "ǫ", "ǭ", "ǯ", "ǳ", "ǳ", "ǵ", "ƕ", "ƿ", "ǹ",
    "ǻ", "ǽ", "ǿ", "ά", "έ", "ή", "ί", "ό", "ύ", "ώ", "α", "β", "γ", "δ", "ε",
    "ζ", "η", "θ", "ι", "κ", "λ", "μ", "ν", "ξ", "ο", "π", "ρ", "σ", "τ", "υ",
    "φ", "χ", "ψ", "ω", "ϊ", "ϋ", "ϗ", "ϙ", "ϛ", "ϝ", "ϟ", "ϡ", "ϣ", "ϥ", "ϧ",
    "ϩ", "ϫ", "ϭ", "ϯ", "θ", "ϸ", "ϲ", "ϻ", "U+037B", "U+037C", "U+037D", "ҁ",
    "ҋ", "ҍ", "ҏ", "ґ", "ғ", "ҕ", "җ", "ҙ", "қ", "ҝ", "ҟ", "ҡ", "ң", "ҥ", "ҧ",
    "ҩ", "ҫ", "ҭ", "ү", "ұ", "ҳ", "ҵ", "ҷ", "ҹ", "һ", "ҽ", "ҿ", "ӏ", "ӂ", "ӄ",
    "ӆ", "ӈ", "ӊ", "ӌ", "ӎ", "ӑ", "ӓ", "ӕ", "ӗ", "ә", "ӛ", "ӝ", "ӟ", "ӡ", "ӣ",
    "ӥ", "ӧ", "ө", "ӫ", "ӭ", "ӯ", "ӱ", "ӳ", "ӵ", "ӷ", "ӹ", "ӻ", "ӽ", "ӿ",
    "U+2D00", "U+2D01", "U+2D02", "U+2D03", "U+2D04", "U+2D05", "U+2D06",
    "U+2D07", "U+2D08", "U+2D09", "U+2D0A", "U+2D0B", "U+2D0C", "U+2D0D",
    "U+2D0E", "U+2D0F", "U+2D10", "U+2D11", "U+2D12", "U+2D13", "U+2D14",
    "U+2D15", "U+2D16", "U+2D17", "U+2D18", "U+2D19", "U+2D1A", "U+2D1B",
    "U+2D1C", "U+2D1D", "U+2D1E", "U+2D1F", "U+2D20", "U+2D21", "U+2D22",
    "U+2D23", "U+2D24", "U+2D25", "U+2D27", "U+2D2D", "U+AB70", "U+AB71",
    "U+AB72", "U+AB73", "U+AB74", "U+AB75", "U+AB76", "U+AB77", "U+AB78",
    "U+AB79", "U+AB7A", "U+AB7B", "U+AB7C", "U+AB7D", "U+AB7E", "U+AB7F", "ꮀ",
    "ꮁ", "ꮂ", "ꮃ", "ꮄ", "ꮅ", "ꮆ", "ꮇ", "ꮈ", "ꮉ", "ꮊ", "ꮋ", "ꮌ", "ꮍ", "ꮎ", "ꮏ",
    "ꮐ", "ꮑ", "ꮒ", "ꮓ", "ꮔ", "ꮕ", "ꮖ", "ꮗ", "ꮘ", "ꮙ", "ꮚ", "ꮛ", "ꮜ", "ꮝ", "ꮞ",
    "ꮟ", "ꮠ", "ꮡ", "ꮢ", "ꮣ", "ꮤ", "ꮥ", "ꮦ", "ꮧ", "ꮨ", "ꮩ", "ꮪ", "ꮫ", "ꮬ", "ꮭ",
    "ꮮ", "ꮯ", "ꮰ", "ꮱ", "ꮲ", "ꮳ", "ꮴ", "ꮵ", "ꮶ", "ꮷ", "ꮸ", "ꮹ", "ꮺ", "ꮻ", "ꮼ",
    "ꮽ", "ꮾ", "ꮿ", "ᏸ", "ᏹ", "ᏺ", "ᏻ", "ᏼ", "ᏽ", "ᲊ", "ა", "ბ", "გ", "დ", "ე",
    "ვ", "ზ", "თ", "ი", "კ", "ლ", "მ", "ნ", "ო", "პ", "ჟ", "რ", "ს", "ტ", "უ",
    "ფ", "ქ", "ღ", "ყ", "შ", "ჩ", "ც", "ძ", "წ", "ჭ", "ხ", "ჯ", "ჰ", "ჱ", "ჲ",
    "ჳ", "ჴ", "ჵ", "ჶ", "ჷ", "ჸ", "ჹ", "ჺ", "ჽ", "ჾ", "ჿ", "ẁ", "ẃ", "ẅ", "ẇ",
    "ẉ", "ẋ", "ẍ", "ẏ", "ẑ", "ẓ", "ẕ", "ß", "ạ", "ả", "ấ", "ầ", "ẩ", "ẫ", "ậ",
    "ắ", "ằ", "ẳ", "ẵ", "ặ", "ẹ", "ẻ", "ẽ", "ế", "ề", "ể", "ễ", "ệ", "ỉ", "ị",
    "ọ", "ỏ", "ố", "ồ", "ổ", "ỗ", "ộ", "ớ", "ờ", "ở", "ỡ", "ợ", "ụ", "ủ", "ứ",
    "ừ", "ử", "ữ", "ự", "ỳ", "ỵ", "ỷ", "ỹ", "ỻ", "ỽ", "ỿ", "ᾀ", "ᾁ", "ᾂ", "ᾃ",
    "ᾄ", "ᾅ", "ᾆ", "ᾇ", "ᾐ", "ᾑ", "ᾒ", "ᾓ", "ᾔ", "ᾕ", "ᾖ", "ᾗ", "ᾠ", "ᾡ", "ᾢ",
    "ᾣ", "ᾤ", "ᾥ", "ᾦ", "ᾧ", "ᾰ", "ᾱ", "U+1F70", "U+1F71", "ᾳ", "U+1F72",
    "U+1F73", "U+1F74", "U+1F75", "ῃ", "ῐ", "ῑ", "U+1F76", "U+1F77", "ῠ", "ῡ",
    "U+1F7A", "U+1F7B", "ῥ", "U+1F78", "U+1F79", "U+1F7C", "U+1F7D", "ῳ", "ↄ",
    "ⓐ", "ⓑ", "ⓒ", "ⓓ", "ⓔ", "ⓕ", "ⓖ", "ⓗ", "ⓘ", "ⓙ", "ⓚ", "ⓛ", "ⓜ", "ⓝ", "ⓞ",
    "ⓟ", "ⓠ", "ⓡ", "ⓢ", "ⓣ", "ⓤ", "ⓥ", "ⓦ", "ⓧ", "ⓨ", "ⓩ", "ⲁ", "ⲃ", "ⲅ", "ⲇ",
    "ⲉ", "ⲋ", "ⲍ", "ⲏ", "ⲑ", "ⲓ", "ⲕ", "ⲗ", "ⲙ", "ⲛ", "ⲝ", "ⲟ", "ⲡ", "ⲣ", "ⲥ",
    "ⲧ", "ⲩ", "ⲫ", "ⲭ", "ⲯ", "ⲱ", "ⲳ", "ⲵ", "ⲷ", "ⲹ", "ⲻ", "ⲽ", "ⲿ", "ⳁ", "ⳃ",
    "ⳅ", "ⳇ", "ⳉ", "ⳋ", "ⳍ", "ⳏ", "ⳑ", "ⳓ", "ⳕ", "ⳗ", "ⳙ", "ⳛ", "ⳝ", "ⳟ", "ⳡ",
    "ⳣ", "ⳬ", "ⳮ", "ⳳ", "ꚁ", "ꚃ", "ꚅ", "ꚇ", "ꚉ", "ꚋ", "ꚍ", "ꚏ", "ꚑ", "ꚓ", "ꚕ",
    "ꚗ", "ꚙ", "ꚛ", "ꞁ", "ꞃ", "ꞅ", "ꞇ", "ꞌ", "U+0265", "ꞑ", "ꞓ", "ꞗ", "ꞙ", "ꞛ",
    "ꞝ", "ꞟ", "ꞡ", "ꞣ", "ꞥ", "ꞧ", "ꞩ", "U+0266", "U+025C", "U+0261", "U+026C",
    "U+026A", "ʞ", "ʇ", "ʝ", "U+AB53", "ꞵ", "ꞷ", "ꞹ", "ꞻ", "ꞽ", "ꞿ", "ꟁ", "ꟃ",
    "ꞔ", "ʂ", "ᶎ", "ꟈ", "ꟊ", "U+0264", "ꟍ", "꟏", "ꟑ", "ꟓ", "ꟕ", "ꟗ", "ꟙ", "ꟛ",
    "ƛ", "ꟶ">>

LowerOf ==
  [c \in {UpperCase[k] : k \in DOMAIN UpperCase} |->
     LowerCase[CHOOSE k \in DOMAIN UpperCase : UpperCase[k] = c]]

LowerChar(c) == IF c \in DOMAIN LowerOf THEN LowerOf[c] ELSE c

\* the characters with a letter case (Lowercase, Uppercase or titlecase) that
\* are not case-ignorable; the pharyngeal voiced fricative U+0295 is a letter
\* without case and is not among them
Cased ==
  {"A", "B", "C", "D", "E", "F", "G", "H", "I", "J", "K", "L", "M", "N", "O",
   "P", "Q", "R", "S", "T", "U", "V", "W", "X", "Y", "Z", "a", "b", "c", "d",
   "e", "f", "g", "h", "i", "j", "k", "l", "m", "n", "o", "p", "q", "r", "s",
   "t", "u", "v", "w", "x", "y", "z", "ª", "µ", "º", "À", "Á", "Â", "Ã", "Ä",
   "Å", "Æ", "Ç", "È", "É", "Ê", "Ë", "Ì", "Í", "Î", "Ï", "Ð", "Ñ", "Ò", "Ó",
   "Ô", "Õ", "Ö", "Ø", "Ù", "Ú", "Û", "Ü", "Ý", "Þ", "ß", "à", "á", "â", "ã",
   "ä", "å", "æ", "ç", "è", "é", "ê", "ë", "ì", "í", "î", "ï", "ð", "ñ", "ò",
   "ó", "ô", "õ", "ö", "ø", "ù", "ú", "û", "ü", "ý", "þ", "ÿ", "ƀ", "Ɓ", "Ƃ",
   "ƃ", "Ƅ", "ƅ", "Ɔ", "Ƈ", "ƈ", "Ɖ", "Ɗ", "Ƌ", "ƌ", "ƍ", "Ǝ", "Ə", "Ɛ", "Ƒ",
   "ƒ", "Ɠ", "Ɣ", "ƕ", "Ɩ", "Ɨ", "Ƙ", "ƙ", "ƚ", "ƛ", "Ɯ", "Ɲ", "ƞ", "Ɵ", "Ơ",
   "ơ", "Ƣ", "ƣ", "Ƥ", "ƥ", "Ʀ", "Ƨ", "ƨ", "Ʃ", "ƪ", "ƫ", "Ƭ", "ƭ", "Ʈ", "Ư",
   "ư", "Ʊ", "Ʋ", "Ƴ", "ƴ", "Ƶ", "ƶ", "Ʒ", "Ƹ", "ƹ", "ƺ", "Ƽ", "ƽ", "ƾ", "ƿ",
   "Ǆ", "ǅ", "ǆ", "Ǉ", "ǈ", "ǉ", "Ǌ", "ǋ", "ǌ", "Ǎ", "ǎ", "Ǐ", "ǐ", "Ǒ", "ǒ",
   "Ǔ", "ǔ", "Ǖ", "ǖ", "Ǘ", "ǘ", "Ǚ", "ǚ", "Ǜ", "ǜ", "ǝ", "Ǟ", "ǟ", "Ǡ", "ǡ",
   "Ǣ", "ǣ", "Ǥ", "ǥ", "Ǧ", "ǧ", "Ǩ", "ǩ", "Ǫ", "ǫ", "Ǭ", "ǭ", "Ǯ", "ǯ", "ǰ",
   "Ǳ", "ǲ", "ǳ", "Ǵ", "ǵ", "Ƕ", "Ƿ", "Ǹ", "ǹ", "Ǻ", "ǻ", "Ǽ", "ǽ", "Ǿ", "ǿ",
   "U+0253", "U+0254", "U+0256", "U+0257", "U+0259", "U+025B", "U+025C",
   "U+0260", "U+0261", "U+0263", "U+0264", "U+0265", "U+0266", "U+0268",
   "U+0269", "U+026A", "U+026C", "U+026F", "U+0272", "U+0275", "ʀ", "ʁ", "ʂ",
   "ʃ", "ʄ", "ʅ", "ʆ", "ʇ", "ʈ", "ʉ", "ʊ", "ʋ", "ʌ", "ʍ", "ʎ", "ʏ", "ʐ", "ʑ",
   "ʒ", "ʓ", "ʖ", "ʗ", "ʘ", "ʙ", "ʚ", "ʛ", "ʜ", "ʝ", "ʞ", "ʟ", "ʠ", "ʡ",
   "ʢ", "ʣ", "ʤ", "ʥ", "ʦ", "ʧ", "ʨ", "ʩ", "ʪ", "ʫ", "ʬ", "ʭ", "ʮ", "ʯ",
   "U+037B", "U+037C", "U+037D", "Ά", "Έ", "Ή", "Ί", "Ό", "Ύ", "Ώ", "ΐ", "Α",
   "Β", "Γ", "Δ", "Ε", "Ζ", "Η", "Θ", "Ι", "Κ", "Λ", "Μ", "Ν", "Ξ", "Ο", "Π",
   "Ρ", "Σ", "Τ", "Υ", "Φ", "Χ", "Ψ", "Ω", "Ϊ", "Ϋ", "ά", "έ", "ή", "ί", "ΰ",
   "α", "β", "γ", "δ", "ε", "ζ", "η", "θ", "ι", "κ", "λ", "μ", "ν", "ξ", "ο",
   "π", "ρ", "ς", "σ", "τ", "υ", "φ", "χ", "ψ", "ω", "ϊ", "ϋ", "ό", "ύ", "ώ",
   "Ϗ", "ϐ", "ϑ", "ϒ", "ϓ", "ϔ", "ϕ", "ϖ", "ϗ", "Ϙ", "ϙ", "Ϛ", "ϛ", "Ϝ", "ϝ",
   "Ϟ", "ϟ", "Ϡ", "ϡ", "Ϣ", "ϣ", "Ϥ", "ϥ", "Ϧ", "ϧ", "Ϩ", "ϩ", "Ϫ", "ϫ", "Ϭ",
   "ϭ", "Ϯ", "ϯ", "ϰ", "ϱ", "ϲ", "ϳ", "ϴ", "ϵ", "Ϸ", "ϸ", "Ϲ", "Ϻ", "ϻ", "ϼ",
   "Ͻ", "Ͼ", "Ͽ", "Ҁ", "ҁ", "Ҋ", "ҋ", "Ҍ", "ҍ", "Ҏ", "ҏ", "Ґ", "ґ", "Ғ", "ғ",
   "Ҕ", "ҕ", "Җ", "җ", "Ҙ", "ҙ", "Қ", "қ", "Ҝ", "ҝ", "Ҟ", "ҟ", "Ҡ", "ҡ", "Ң",
   "ң", "Ҥ", "ҥ", "Ҧ", "ҧ", "Ҩ", "ҩ", "Ҫ", "ҫ", "Ҭ", "ҭ", "Ү", "ү", "Ұ", "ұ",
   "Ҳ", "ҳ", "Ҵ", "ҵ", "Ҷ", "ҷ", "Ҹ", "ҹ", "Һ", "һ", "Ҽ", "ҽ", "Ҿ", "ҿ", "Ӏ",
   "Ӂ", "ӂ", "Ӄ", "ӄ", "Ӆ", "ӆ", "Ӈ", "ӈ", "Ӊ", "ӊ", "Ӌ", "ӌ", "Ӎ", "ӎ", "ӏ",
   "Ӑ", "ӑ", "Ӓ", "ӓ", "Ӕ", "ӕ", "Ӗ", "ӗ", "Ә", "ә", "Ӛ", "ӛ", "Ӝ", "ӝ", "Ӟ",
   "ӟ", "Ӡ", "ӡ", "Ӣ", "ӣ", "Ӥ", "ӥ", "Ӧ", "ӧ", "Ө", "ө", "Ӫ", "ӫ", "Ӭ", "ӭ",
   "Ӯ", "ӯ", "Ӱ", "ӱ", "Ӳ", "ӳ", "Ӵ", "ӵ", "Ӷ", "ӷ", "Ӹ", "ӹ", "Ӻ", "ӻ", "Ӽ",
   "ӽ", "Ӿ", "ӿ", "ր", "ց", "ւ", "փ", "ք", "օ", "ֆ", "և", "ֈ", "Ⴀ", "Ⴁ", "Ⴂ",
   "Ⴃ", "Ⴄ", "Ⴅ", "Ⴆ", "Ⴇ", "Ⴈ", "Ⴉ", "Ⴊ", "Ⴋ", "Ⴌ", "Ⴍ", "Ⴎ", "Ⴏ", "Ⴐ", "Ⴑ",
   "Ⴒ", "Ⴓ", "Ⴔ", "Ⴕ", "Ⴖ", "Ⴗ", "Ⴘ", "Ⴙ", "Ⴚ", "Ⴛ", "Ⴜ", "Ⴝ", "Ⴞ", "Ⴟ", "Ⴠ",
   "Ⴡ", "Ⴢ", "Ⴣ", "Ⴤ", "Ⴥ", "Ⴧ", "Ⴭ", "ა", "ბ", "გ", "დ", "ე", "ვ", "ზ", "თ",
   "ი", "კ", "ლ", "მ", "ნ", "ო", "პ", "ჟ", "რ", "ს", "ტ", "უ", "ფ", "ქ", "ღ",
   "ყ", "შ", "ჩ", "ც", "ძ", "წ", "ჭ", "ხ", "ჯ", "ჰ", "ჱ", "ჲ", "ჳ", "ჴ", "ჵ",
   "ჶ", "ჷ", "ჸ", "ჹ", "ჺ", "ჽ", "ჾ", "ჿ", "Ꭰ", "Ꭱ", "Ꭲ", "Ꭳ", "Ꭴ", "Ꭵ", "Ꭶ",
   "Ꭷ", "Ꭸ", "Ꭹ", "Ꭺ", "Ꭻ", "Ꭼ", "Ꭽ", "Ꭾ", "Ꭿ", "Ꮀ", "Ꮁ", "Ꮂ", "Ꮃ", "Ꮄ", "Ꮅ",
   "Ꮆ", "Ꮇ", "Ꮈ", "Ꮉ", "Ꮊ", "Ꮋ", "Ꮌ", "Ꮍ", "Ꮎ", "Ꮏ", "Ꮐ", "Ꮑ", "Ꮒ", "Ꮓ", "Ꮔ",
   "Ꮕ", "Ꮖ", "Ꮗ", "Ꮘ", "Ꮙ", "Ꮚ", "Ꮛ", "Ꮜ", "Ꮝ", "Ꮞ", "Ꮟ", "Ꮠ", "Ꮡ", "Ꮢ", "Ꮣ",
   "Ꮤ", "Ꮥ", "Ꮦ", "Ꮧ", "Ꮨ", "Ꮩ", "Ꮪ", "Ꮫ", "Ꮬ", "Ꮭ", "Ꮮ", "Ꮯ", "Ꮰ", "Ꮱ", "Ꮲ",
   "Ꮳ", "Ꮴ", "Ꮵ", "Ꮶ", "Ꮷ", "Ꮸ", "Ꮹ", "Ꮺ", "Ꮻ", "Ꮼ", "Ꮽ", "Ꮾ", "Ꮿ", "Ᏸ", "Ᏹ",
   "Ᏺ", "Ᏻ", "Ᏼ", "Ᏽ", "ᏸ", "ᏹ", "ᏺ", "ᏻ", "ᏼ", "ᏽ", "ᲀ", "ᲁ", "ᲂ", "ᲃ", "ᲄ",
   "ᲅ", "ᲆ", "ᲇ", "ᲈ", "Ᲊ", "ᲊ", "Ა", "Ბ", "Გ", "Დ", "Ე", "Ვ", "Ზ", "Თ", "Ი",
   "Კ", "Ლ", "Მ", "Ნ", "Ო", "Პ", "Ჟ", "Რ", "Ს", "Ტ", "Უ", "Ფ", "Ქ", "Ღ", "Ყ",
   "Შ", "Ჩ", "Ც", "Ძ", "Წ", "Ჭ", "Ხ", "Ჯ", "Ჰ", "Ჱ", "Ჲ", "Ჳ", "Ჴ", "Ჵ", "Ჶ",
   "Ჷ", "Ჸ", "Ჹ", "Ჺ", "Ჽ", "Ჾ", "Ჿ", "ᶀ", "ᶁ", "ᶂ", "ᶃ", "ᶄ", "ᶅ", "ᶆ", "ᶇ",
   "ᶈ", "ᶉ", "ᶊ", "ᶋ", "ᶌ", "ᶍ", "ᶎ", "ᶏ", "ᶐ", "ᶑ", "ᶒ", "ᶓ", "ᶔ", "ᶕ", "ᶖ",
   "ᶗ", "ᶘ", "ᶙ", "ᶚ", "Ẁ", "ẁ", "Ẃ", "ẃ", "Ẅ", "ẅ", "Ẇ", "ẇ", "Ẉ", "ẉ", "Ẋ",
   "ẋ", "Ẍ", "ẍ", "Ẏ", "ẏ", "Ẑ", "ẑ", "Ẓ", "ẓ", "Ẕ", "ẕ", "ẖ", "ẗ", "ẘ", "ẙ",
   "ẚ", "ẛ", "ẜ", "ẝ", "ẞ", "ẟ", "Ạ", "ạ", "Ả", "ả", "Ấ", "ấ", "Ầ", "ầ", "Ẩ",
   "ẩ", "Ẫ", "ẫ", "Ậ", "ậ", "Ắ", "ắ", "Ằ", "ằ", "Ẳ", "ẳ", "Ẵ", "ẵ", "Ặ", "ặ",
   "Ẹ", "ẹ", "Ẻ", "ẻ", "Ẽ", "ẽ", "Ế", "ế", "Ề", "ề", "Ể", "ể", "Ễ", "ễ", "Ệ",
   "ệ", "Ỉ", "ỉ", "Ị", "ị", "Ọ", "ọ", "Ỏ", "ỏ", "Ố", "ố", "Ồ", "ồ", "Ổ", "ổ",
   "Ỗ", "ỗ", "Ộ", "ộ", "Ớ", "ớ", "Ờ", "ờ", "Ở", "ở", "Ỡ", "ỡ", "Ợ", "ợ", "Ụ",
   "ụ", "Ủ", "ủ", "Ứ", "ứ", "Ừ", "ừ", "Ử", "ử", "Ữ", "ữ", "Ự", "ự", "Ỳ", "ỳ",
   "Ỵ", "ỵ", "Ỷ", "ỷ", "Ỹ", "ỹ", "Ỻ", "ỻ", "Ỽ", "ỽ", "Ỿ", "ỿ", "U+1F70",
   "U+1F71", "U+1F72", "U+1F73", "U+1F74", "U+1F75", "U+1F76", "U+1F77",
   "U+1F78", "U+1F79", "U+1F7A", "U+1F7B", "U+1F7C", "U+1F7D", "ᾀ", "ᾁ", "ᾂ",
   "ᾃ", "ᾄ", "ᾅ", "ᾆ", "ᾇ", "ᾈ", "ᾉ", "ᾊ", "ᾋ", "ᾌ", "ᾍ", "ᾎ", "ᾏ", "ᾐ", "ᾑ",
   "ᾒ", "ᾓ", "ᾔ", "ᾕ", "ᾖ", "ᾗ", "ᾘ", "ᾙ", "ᾚ", "ᾛ", "ᾜ", "ᾝ", "ᾞ", "ᾟ", "ᾠ",
   "ᾡ", "ᾢ", "ᾣ", "ᾤ", "ᾥ", "ᾦ", "ᾧ", "ᾨ", "ᾩ", "ᾪ", "ᾫ", "ᾬ", "ᾭ", "ᾮ", "ᾯ",
   "ᾰ", "ᾱ", "ᾲ", "ᾳ", "ᾴ", "ᾶ", "ᾷ", "Ᾰ", "Ᾱ", "Ὰ", "Ά", "ᾼ", "ι", "ῂ", "ῃ",
   "ῄ", "ῆ", "ῇ", "Ὲ", "Έ", "Ὴ", "Ή", "ῌ", "ῐ", "ῑ", "ῒ", "ΐ", "ῖ", "ῗ", "Ῐ",
   "Ῑ", "Ὶ", "Ί", "ῠ", "ῡ", "ῢ", "ΰ", "ῤ", "ῥ", "ῦ", "ῧ", "Ῠ", "Ῡ", "Ὺ", "Ύ",
   "Ῥ", "ῲ", "ῳ", "ῴ", "ῶ", "ῷ", "Ὸ", "Ό", "Ὼ", "Ώ", "ῼ", "Ↄ", "ↄ", "Ⓐ", "Ⓑ",
   "Ⓒ", "Ⓓ", "Ⓔ", "Ⓕ", "Ⓖ", "Ⓗ", "Ⓘ", "Ⓙ", "Ⓚ", "Ⓛ", "Ⓜ", "Ⓝ", "Ⓞ", "Ⓟ", "Ⓠ",
   "Ⓡ", "Ⓢ", "Ⓣ", "Ⓤ", "Ⓥ", "Ⓦ", "Ⓧ", "Ⓨ", "Ⓩ", "ⓐ", "ⓑ", "ⓒ", "ⓓ", "ⓔ", "ⓕ",
   "ⓖ", "ⓗ", "ⓘ", "ⓙ", "ⓚ", "ⓛ", "ⓜ", "ⓝ", "ⓞ", "ⓟ", "ⓠ", "ⓡ", "ⓢ", "ⓣ", "ⓤ",
   "ⓥ", "ⓦ", "ⓧ", "ⓨ", "ⓩ", "Ⲁ", "ⲁ", "Ⲃ", "ⲃ", "Ⲅ", "ⲅ", "Ⲇ", "ⲇ", "Ⲉ", "ⲉ",
   "Ⲋ", "ⲋ", "Ⲍ", "ⲍ", "Ⲏ", "ⲏ", "Ⲑ", "ⲑ", "Ⲓ", "ⲓ", "Ⲕ", "ⲕ", "Ⲗ", "ⲗ", "Ⲙ",
   "ⲙ", "Ⲛ", "ⲛ", "Ⲝ", "ⲝ", "Ⲟ", "ⲟ", "Ⲡ", "ⲡ", "Ⲣ", "ⲣ", "Ⲥ", "ⲥ", "Ⲧ", "ⲧ",
   "Ⲩ", "ⲩ", "Ⲫ", "ⲫ", "Ⲭ", "ⲭ", "Ⲯ", "ⲯ", "Ⲱ", "ⲱ", "Ⲳ", "ⲳ", "Ⲵ", "ⲵ", "Ⲷ",
   "ⲷ", "Ⲹ", "ⲹ", "Ⲻ", "ⲻ", "Ⲽ", "ⲽ", "Ⲿ", "ⲿ", "Ⳁ", "ⳁ", "Ⳃ", "ⳃ", "Ⳅ", "ⳅ",
   "Ⳇ", "ⳇ", "Ⳉ", "ⳉ", "Ⳋ", "ⳋ", "Ⳍ", "ⳍ", "Ⳏ", "ⳏ", "Ⳑ", "ⳑ", "Ⳓ", "ⳓ", "Ⳕ",
   "ⳕ", "Ⳗ", "ⳗ", "Ⳙ", "ⳙ", "Ⳛ", "ⳛ", "Ⳝ", "ⳝ", "Ⳟ", "ⳟ", "Ⳡ", "ⳡ", "Ⳣ", "ⳣ",
   "ⳤ", "Ⳬ", "ⳬ", "Ⳮ", "ⳮ", "Ⳳ", "ⳳ", "U+2D00", "U+2D01", "U+2D02", "U+2D03",
   "U+2D04", "U+2D05", "U+2D06", "U+2D07", "U+2D08", "U+2D09", "U+2D0A",
   "U+2D0B", "U+2D0C", "U+2D0D", "U+2D0E", "U+2D0F", "U+2D10", "U+2D11",
   "U+2D12", "U+2D13", "U+2D14", "U+2D15", "U+2D16", "U+2D17", "U+2D18",
   "U+2D19", "U+2D1A", "U+2D1B", "U+2D1C", "U+2D1D", "U+2D1E", "U+2D1F",
   "U+2D20", "U+2D21", "U+2D22", "U+2D23", "U+2D24", "U+2D25", "U+2D27",
   "U+2D2D", "Ꚁ", "ꚁ", "Ꚃ", "ꚃ", "Ꚅ", "ꚅ", "Ꚇ", "ꚇ", "Ꚉ", "ꚉ", "Ꚋ", "ꚋ", "Ꚍ",
   "ꚍ", "Ꚏ", "ꚏ", "Ꚑ", "ꚑ", "Ꚓ", "ꚓ", "Ꚕ", "ꚕ", "Ꚗ", "ꚗ", "Ꚙ", "ꚙ", "Ꚛ", "ꚛ",
   "Ꞁ", "ꞁ", "Ꞃ", "ꞃ", "Ꞅ", "ꞅ", "Ꞇ", "ꞇ", "Ꞌ", "ꞌ", "Ɥ", "ꞎ", "Ꞑ", "ꞑ", "Ꞓ",
   "ꞓ", "ꞔ", "ꞕ", "Ꞗ", "ꞗ", "Ꞙ", "ꞙ", "Ꞛ", "ꞛ", "Ꞝ", "ꞝ", "Ꞟ", "ꞟ", "Ꞡ", "ꞡ",
   "Ꞣ", "ꞣ", "Ꞥ", "ꞥ", "Ꞧ", "ꞧ", "Ꞩ", "ꞩ", "Ɦ", "Ɜ", "Ɡ", "Ɬ", "Ɪ", "ꞯ", "Ʞ",
   "Ʇ", "Ʝ", "Ꭓ", "Ꞵ", "ꞵ", "Ꞷ", "ꞷ", "Ꞹ", "ꞹ", "Ꞻ", "ꞻ", "Ꞽ", "ꞽ", "Ꞿ", "ꞿ",
   "Ꟁ", "ꟁ", "Ꟃ", "ꟃ", "Ꞔ", "Ʂ", "Ᶎ", "Ꟈ", "ꟈ", "Ꟊ", "ꟊ", "Ɤ", "Ꟍ", "ꟍ", "꟎",
   "꟏", "Ꟑ", "ꟑ", "꟒", "ꟓ", "꟔", "ꟕ", "Ꟗ", "ꟗ", "Ꟙ", "ꟙ", "Ꟛ", "ꟛ", "Ƛ", "Ꟶ",
   "ꟶ", "ꟺ", "U+AB53", "U+AB70", "U+AB71", "U+AB72", "U+AB73", "U+AB74",
   "U+AB75", "U+AB76", "U+AB77", "U+AB78", "U+AB79", "U+AB7A", "U+AB7B",
   "U+AB7C", "U+AB7D", "U+AB7E", "U+AB7F", "ꮀ", "ꮁ", "ꮂ", "ꮃ", "ꮄ", "ꮅ", "ꮆ",
   "ꮇ", "ꮈ", "ꮉ", "ꮊ", "ꮋ", "ꮌ", "ꮍ", "ꮎ", "ꮏ", "ꮐ", "ꮑ", "ꮒ", "ꮓ", "ꮔ", "ꮕ",
   "ꮖ", "ꮗ", "ꮘ", "ꮙ", "ꮚ", "ꮛ", "ꮜ", "ꮝ", "ꮞ", "ꮟ", "ꮠ", "ꮡ", "ꮢ", "ꮣ", "ꮤ",
   "ꮥ", "ꮦ", "ꮧ", "ꮨ", "ꮩ", "ꮪ", "ꮫ", "ꮬ", "ꮭ", "ꮮ", "ꮯ", "ꮰ", "ꮱ", "ꮲ", "ꮳ",
   "ꮴ", "ꮵ", "ꮶ", "ꮷ", "ꮸ", "ꮹ", "ꮺ", "ꮻ", "ꮼ", "ꮽ", "ꮾ", "ꮿ"}

\* the case-ignorable characters: marks, format characters, modifier letters
\* and symbols, and the punctuation that may stand inside a word
CaseIgnorable ==
  {"'", ".", ":", "^", "¨", "­", "¯", "´", "·", "¸", "ʰ", "ʱ", "ʲ", "ʳ", "ʴ",
   "ʵ", "ʶ", "ʷ", "ʸ", "ʹ", "ʺ", "ʻ", "ʼ", "ʽ", "ʾ", "ʿ", "ˀ", "ˁ", "˂", "˃",
   "˄", "˅", "ˆ", "ˇ", "ˈ", "ˉ", "ˊ", "ˋ", "ˌ", "ˍ", "ˎ", "ˏ", "ː", "ˑ", "˒",
   "˓", "˔", "˕", "˖", "˗", "˘", "˙", "˚", "˛", "˜", "˝", "˞", "˟", "ˠ", "ˡ",
   "ˢ", "ˣ", "ˤ", "˥", "˦", "˧", "˨", "˩", "˪", "˫", "ˬ", "˭", "ˮ", "˯", "˰",
   "˱", "˲", "˳", "˴", "˵", "˶", "˷", "˸", "˹", "˺", "˻", "˼", "˽", "˾", "˿",
   "΄", "΅", "·", "҃", "҄", "҅", "҆", "҇", "҈", "҉", "֑", "֒", "֓", "֔", "֕",
   "֖", "֗", "֘", "֙", "֚", "֛", "֜", "֝", "֞", "֟", "֠", "֡", "֢", "֣", "֤",
   "֥", "֦", "֧", "֨", "֩", "֪", "֫", "֬", "֭", "֮", "֯", "ְ", "ֱ", "ֲ", "ֳ",
   "ִ", "ֵ", "ֶ", "ַ", "ָ", "ֹ", "ֺ", "ֻ", "ּ", "ֽ", "ֿ", "ׁ", "ׂ", "ׄ", "ׅ",
   "ׇ", "״", "ۖ", "ۗ", "ۘ", "ۙ", "ۚ", "ۛ", "ۜ", "۝", "۟", "۠", "ۡ", "ۢ", "ۣ",
   "ۤ", "ۥ", "ۦ", "ۧ", "ۨ", "۪", "۫", "۬", "ۭ", "ަ", "ާ", "ި", "ީ", "ު", "ޫ",
   "ެ", "ޭ", "ޮ", "ޯ", "ް", "߫", "߬", "߭", "߮", "߯", "߰", "߱", "߲", "߳", "ߴ",
   "ߵ", "ߺ", "߽", "࢈", "࢐", "࢑", "ࢗ", "࢘", "࢙", "࢚", "࢛", "࢜", "࢝", "࢞", "࢟",
   "ࣉ", "࣊", "࣋", "࣌", "࣍", "࣎", "࣏", "࣐", "࣑", "࣒", "࣓", "ࣔ", "ࣕ", "ࣖ", "ࣗ",
   "ࣘ", "ࣙ", "ࣚ", "ࣛ", "ࣜ", "ࣝ", "ࣞ", "ࣟ", "࣠", "࣡", "࣢", "ࣣ", "ࣤ", "ࣥ", "ࣦ",
   "ࣧ", "ࣨ", "ࣩ", "࣪", "࣫", "࣬", "࣭", "࣮", "࣯", "ࣰ", "ࣱ", "ࣲ", "ࣳ", "ࣴ", "ࣵ",
   "ࣶ", "ࣷ", "ࣸ", "ࣹ", "ࣺ", "ࣻ", "ࣼ", "ࣽ", "ࣾ", "ࣿ", "ঁ", "়", "ু", "ূ", "ৃ",
   "ৄ", "্", "ৢ", "ৣ", "৾", "ઁ", "ં", "઼", "ુ", "ૂ", "ૃ", "ૄ", "ૅ", "ે", "ૈ",
   "્", "ૢ", "ૣ", "ૺ", "ૻ", "ૼ", "૽", "૾", "૿", "ஂ", "ீ", "்", "ಁ", "಼", "ಿ",
   "ೆ", "ೌ", "್", "ೢ", "ೣ", "ඁ", "්", "ි", "ී", "ු", "ූ", "ັ", "ິ", "ີ", "ຶ",
   "ື", "ຸ", "ູ", "຺", "ົ", "ຼ", "ໆ", "່", "້", "໊", "໋", "໌", "ໍ", "໎", "ྀ",
   "ཱྀ", "ྂ", "ྃ", "྄", "྆", "྇", "ྍ", "ྎ", "ྏ", "ྐ", "ྑ", "ྒ", "ྒྷ", "ྔ", "ྕ",
   "ྖ", "ྗ", "ྙ", "ྚ", "ྛ", "ྜ", "ྜྷ", "ྞ", "ྟ", "ྠ", "ྡ", "ྡྷ", "ྣ", "ྤ", "ྥ",
   "ྦ", "ྦྷ", "ྨ", "ྩ", "ྪ", "ྫ", "ྫྷ", "ྭ", "ྮ", "ྯ", "ྰ", "ྱ", "ྲ", "ླ", "ྴ",
   "ྵ", "ྶ", "ྷ", "ྸ", "ྐྵ", "ྺ", "ྻ", "ྼ", "࿆", "ႂ", "ႅ", "ႆ", "ႍ", "ႝ", "ჼ",
   "឴", "឵", "ិ", "ី", "ឹ", "ឺ", "ុ", "ូ", "ួ", "ំ", "៉", "៊", "់", "៌", "៍",
   "៎", "៏", "័", "៑", "្", "៓", "ៗ", "៝", "ᢅ", "ᢆ", "ᢩ", "ᪧ", "᪰", "᪱", "᪲",
   "᪳", "᪴", "᪵", "᪶", "᪷", "᪸", "᪹", "᪺", "᪻", "᪼", "᪽", "᪾", "ᪿ", "ᫀ", "᫁",
   "᫂", "᫃", "᫄", "᫅", "᫆", "᫇", "᫈", "᫉", "᫊", "᫋", "ᫌ", "ᫍ", "ᫎ", "᫏", "᫐",
   "᫑", "᫒", "᫓", "᫔", "᫕", "᫖", "᫗", "᫘", "᫙", "᫚", "᫛", "᫜", "᫝", "᫠", "᫡",
   "᫢", "᫣", "᫤", "᫥", "᫦", "᫧", "᫨", "᫩", "᫪", "᫫", "ᮀ", "ᮁ", "ᮢ", "ᮣ", "ᮤ",
   "ᮥ", "ᮨ", "ᮩ", "᮫", "ᮬ", "ᮭ", "᯦", "ᯨ", "ᯩ", "ᯭ", "ᯯ", "ᯰ", "ᯱ", "᳐", "᳑",
   "᳒", "᳔", "᳕", "᳖", "᳗", "᳘", "᳙", "᳚", "᳛", "᳜", "᳝", "᳞", "᳟", "᳠", "᳢",
   "᳣", "᳤", "᳥", "᳦", "᳧", "᳨", "᳭", "᳴", "᳸", "᳹", "ᶛ", "ᶜ", "ᶝ", "ᶞ", "ᶟ",
   "ᶠ", "ᶡ", "ᶢ", "ᶣ", "ᶤ", "ᶥ", "ᶦ", "ᶧ", "ᶨ", "ᶩ", "ᶪ", "ᶫ", "ᶬ", "ᶭ", "ᶮ",
   "ᶯ", "ᶰ", "ᶱ", "ᶲ", "ᶳ", "ᶴ", "ᶵ", "ᶶ", "ᶷ", "ᶸ", "ᶹ", "ᶺ", "ᶻ", "ᶼ", "ᶽ",
   "ᶾ", "ᶿ", "᷀", "᷁", "᷂", "᷃", "᷄", "᷅", "᷆", "᷇", "᷈", "᷉", "᷊", "᷋", "᷌",
   "᷍", "᷎", "᷏", "᷐", "᷑", "᷒", "ᷓ", "ᷔ", "ᷕ", "ᷖ", "ᷗ", "ᷘ", "ᷙ", "ᷚ", "ᷛ",
   "ᷜ", "ᷝ", "ᷞ", "ᷟ", "ᷠ", "ᷡ", "ᷢ", "ᷣ", "ᷤ", "ᷥ", "ᷦ", "ᷧ", "ᷨ", "ᷩ", "ᷪ",
   "ᷫ", "ᷬ", "ᷭ", "ᷮ", "ᷯ", "ᷰ", "ᷱ", "ᷲ", "ᷳ", "ᷴ", "᷵", "᷶", "᷷", "᷸", "᷹",
   "᷺", "᷻", "᷼", "᷽", "᷾", "᷿", "᾽", "᾿", "῀", "῁", "῍", "῎", "῏", "῝", "῞",
   "῟", "῭", "΅", "`", "´", "῾", "ₐ", "ₑ", "ₒ", "ₓ", "ₔ", "ₕ", "ₖ", "ₗ", "ₘ",
   "ₙ", "ₚ", "ₛ", "ₜ", "⃐", "⃑", "⃒", "⃓", "⃔", "⃕", "⃖", "⃗", "⃘", "⃙", "⃚",
   "⃛", "⃜", "⃝", "⃞", "⃟", "⃠", "⃡", "⃢", "⃣", "⃤", "⃥", "⃦", "⃧", "⃨", "⃩",
   "⃪", "⃫", "⃬", "⃭", "⃮", "⃯", "⃰", "⳯", "⳰", "⳱", "ⷠ", "ⷡ", "ⷢ", "ⷣ", "ⷤ",
   "ⷥ", "ⷦ", "ⷧ", "ⷨ", "ⷩ", "ⷪ", "ⷫ", "ⷬ", "ⷭ", "ⷮ", "ⷯ", "ⷰ", "ⷱ", "ⷲ", "ⷳ",
   "ⷴ", "ⷵ", "ⷶ", "ⷷ", "ⷸ", "ⷹ", "ⷺ", "ⷻ", "ⷼ", "ⷽ", "ⷾ", "ⷿ", "゙", "゚", "゛",
   "゜", "ゝ", "ゞ", "ー", "ヽ", "ヾ", "ꓸ", "ꓹ", "ꓺ", "ꓻ", "ꓼ", "ꓽ", "ꚜ", "ꚝ", "ꚞ",
   "ꚟ", "꛰", "꛱", "ꞈ", "꞉", "꞊", "꟱", "ꟲ", "ꟳ", "ꟴ", "ꟸ", "ꟹ", "꣄", "ꣅ", "꣠",
   "꣡", "꣢", "꣣", "꣤", "꣥", "꣦", "꣧", "꣨", "꣩", "꣪", "꣫", "꣬", "꣭", "꣮", "꣯",
   "꣰", "꣱", "ꣿ", "ꦀ", "ꦁ", "ꦂ", "꦳", "ꦶ", "ꦷ", "ꦸ", "ꦹ", "ꦼ", "ꦽ", "ꧏ", "ꧥ",
   "ꧦ", "ꪰ", "ꪲ", "ꪳ", "ꪴ", "ꪷ", "ꪸ", "ꪾ", "꪿", "꫁", "ꫝ", "ꫬ", "ꫭ", "ꫳ", "ꫴ",
   "꫶", "ꯥ", "ꯨ", "꯭", "﮲", "﮳", "﮴", "﮵", "﮶", "﮷", "﮸", "﮹", "﮺", "﮻", "﮼",
   "﮽", "﮾", "﮿", "﯀", "﯁", "﯂", "﻿", "ﾞ", "ﾟ", "￣", "￹", "￺", "￻"}

\* the one rule of toLowerCase that looks at the neighbours: a capital sigma is
\* final when a cased letter comes before it and none after it, case-ignorable
\* characters skipped on both sides
FinalSigma(s, k) ==
  LET before == {j \in 1..(k - 1) : s[j] \notin CaseIgnorable}
      after == {j \in (k + 1)..Len(s) : s[j] \notin CaseIgnorable}
      prev == CHOOSE j \in before : \A i \in before : i <= j
      next == CHOOSE j \in after : \A i \in after : j <= i
  IN /\ before # {}
     /\ s[prev] \in Cased
     /\ after = {} \/ s[next] \notin Cased

\* String.prototype.toLowerCase
ToLowerCase(s) ==
  [k \in DOMAIN s |->
     IF s[k] = "Σ" /\ FinalSigma(s, k) THEN "ς" ELSE LowerChar(s[k])]

\* String.prototype.includes
StrIncludes(s, sub) ==
  \E k \in 0..(Len(s) - Len(sub)) : SubSeq(s, k + 1, k + Len(sub)) = sub

\* matchesSearch
MatchesSearch(note, term) ==
  \/ StrIncludes(ToLowerCase(note.title), ToLowerCase(term))
  \/ StrIncludes(ToLowerCase(note.content), ToLowerCase(term))
  \/ \E k \in DOMAIN note.tags :
       StrIncludes(ToLowerCase(note.tags[k]), ToLowerCase(term))

MatchesAnyTag(note, tag) == TRUE

\* matchesTag: !selectedTag || note.tags.includes(selectedTag)
MatchesTag(note, tag) ==
  \/ tag = NullTag
  \/ tag = EmptyStr
  \/ Includes(note.tags, tag)

\* filteredNotes; sortedNotes is a permutation of it
FilteredNotes(ns, term, tag) ==
  SelectSeq(ns, LAMBDA note : MatchesSearch(note, term) /\ MatchesTag(note, tag))

\* allTags, as the set of tags that get a filter button
AllTags(ns) == UNION {{ns[k].tags[j] : j \in DOMAIN ns[k].tags} : k \in DOMAIN ns}

\* what the stored slot can hold when the application starts: notes saved by an
\* earlier run, their dates serialised
StoredKinds ==
  {<<<<"A", "b">>, <<Meeting>>>>, <<<<"É", "q">>, <<Meeting>>>>,
   <<<<"É", "Σ">>, <<TagQ>>>>}
StoredNote(id, title, tags) ==
  [id |-> id, title |-> title, content |-> <<"c", ".">>,
   createdAt |-> ToISOString(NewDate(0)), updatedAt |-> ToISOString(NewDate(0)),
   favorite |-> FALSE, tags |-> tags]
StoredCollections ==
  UNION {[1..n -> {StoredNote(0, kind[1], kind[2]) : kind \in StoredKinds}]
         : n \in 0..MaxStored}
WithIds(ns) == [k \in DOMAIN ns |-> [ns[k] EXCEPT !.id = 100 + k]]

SearchTerms == {EmptyStr, <<"B">>, <<"é">>, <<"σ">>}

\* App mounting on a filled localStorage: JSON.parse leaves the dates as strings
InitList ==
  /\ \E stored \in StoredCollections : persisted = WithIds(stored)
  /\ notes = persisted
  /\ selectedNote = NoNote
  /\ selectedIsRef = FALSE
  /\ formData = Template(0)
  /\ now = 0
  /\ nextId = 1
  /\ creates = 0
  /\ deletes = 0
  /\ last = Op("mount", 0)
  /\ ListIdle
  /\ RecIdle

\* the search input's onChange
SetSearchTerm(term) ==
  /\ searchTerm' = term
  /\ last' = Op("search", 0)
  /\ UNCHANGED <<storeVars, selectedTag, recVars>>

\* a tag button's onClick
SetSelectedTag(tag) ==
  /\ tag \in AllTags(notes)
  /\ selectedTag' = IF selectedTag = tag THEN NullTag ELSE tag
  /\ last' = Op("tag", 0)
  /\ UNCHANGED <<storeVars, searchTerm, recVars>>

\* sortedNotes.map: one row per note of the filtered list, keyed by its id
RenderedIds ==
  LET sortedNotes == FilteredNotes(notes, searchTerm, selectedTag)
  IN {sortedNotes[k].id : k \in DOMAIN sortedNotes}

\* notes[i] has a row, and with it the row's title and buttons
Rendered(i) == i \in DOMAIN notes /\ notes[i].id \in RenderedIds

\* a rendered row's title onClick
OnSelectNote(i) == Rendered(i) /\ SelectNote(i)

\* a rendered row's star button onClick
OnToggleFavorite(i) == Rendered(i) /\ HandleToggleFavorite(i)

\* a rendered row's delete button onClick
OnDeleteNote(i, confirmed) == Rendered(i) /\ HandleDeleteNote(i, confirmed)

NextList ==
  \/ \E term \in SearchTerms : SetSearchTerm(term)
  \/ \E tag \in {Meeting, TagQ} : SetSelectedTag(tag)
  \/ \E i \in 1..MaxStored : OnSelectNote(i)
  \/ \E i \in 1..MaxStored : OnToggleFavorite(i)
  \/ \E i \in 1..MaxStored, confirmed \in BOOLEAN : OnDeleteNote(i, confirmed)

SpecList == InitList /\ [][NextList]_vars

(***************************************************************************)
(* The editor's speech capture (NoteEditor).                               *)
(***************************************************************************)
\* Array.prototype.join
RECURSIVE Join(_, _)
Join(parts, sep) ==
  IF parts = <<>> THEN <<>>
  ELSE IF Len(parts) = 1 THEN parts[1]
  ELSE parts[1] \o sep \o Join(Tail(parts), sep)

\* String.prototype.split on a one-character separator
RECURSIVE Split(_, _)
Split(s, c) ==
  IF \A k \in DOMAIN s : s[k] # c THEN <<s>>
  ELSE LET k == CHOOSE j \in DOMAIN s : s[j] = c /\ \A i \in 1..(j - 1) : s[i] # c
       IN <<SubSeq(s, 1, k - 1)>> \o Split(SubSeq(s, k + 1, Len(s)), c)

\* Array.prototype.indexOf, for an element that occurs
IndexOf(arr, x) == CHOOSE k \in DOMAIN arr : arr[k] = x /\ \A i \in 1..(k - 1) : arr[i] # x

\* .filter((sentence, index, array) => sentence && array.indexOf(sentence) === index)
RECURSIVE FilterFirst(_, _)
FilterFirst(arr, from) ==
  IF from > Len(arr) THEN <<>>
  ELSE (IF arr[from] # EmptyStr /\ IndexOf(arr, arr[from]) = from
        THEN <<arr[from]>> ELSE <<>>) \o FilterFirst(arr, from + 1)

\* .map(sentence => sentence.trim())
TrimAll(arr) == [k \in DOMAIN arr |-> Trim(arr[k])]

CleanKeepingRepeats(res) ==
  Join(SelectSeq(TrimAll(Split(Join(res, <<" ">>), ".")), LAMBDA x : x # EmptyStr),
       <<".", " ">>)

\* recognition.onresult: the cleaned transcript of event.results
CleanTranscript(res) ==
  Join(FilterFirst(TrimAll(Split(Join(res, <<" ">>), ".")), 1), <<".", " ">>)

QueryOutcomeIgnoringDenied(state) == IF state = "prompt" THEN "ask" ELSE "true"

\* requestMicrophonePermission after permissions.query resolved with state
QueryOutcome(state) ==
  CASE state = "denied" -> "false"
    [] state = "prompt" -> "ask"
    [] OTHER -> "true"

\* recognition.current.stop()
StopSession(sess) == IF sess = "running" THEN "idle" ELSE sess

\* answer: for "prompt" the user's answer, for "query" whether the query answered
RecOp(name, answer) ==
  [op |-> name, id |-> 0, snapFavorite |-> FALSE, answer |-> answer]

\* toggleRecording after hasPermission came back true: start() throws when the
\* session is already started; setIsRecording on an unmounted component is dropped
StartRecording ==
  IF session = "idle"
  THEN /\ session' = "running"
       /\ isRecording' = IF mounted THEN TRUE ELSE isRecording
  ELSE UNCHANGED <<session, isRecording>>

\* toggleRecording up to its await
ToggleRecording ==
  /\ mounted
  /\ IF session = "none"
     THEN /\ last' = RecOp("unsupported", FALSE)
          /\ UNCHANGED <<isRecording, session, pending>>
     ELSE IF isRecording
     THEN /\ session' = StopSession(session)
          /\ isRecording' = FALSE
          /\ last' = RecOp("toggleOff", FALSE)
          /\ UNCHANGED pending
     ELSE /\ pending.query + pending.prompt < MaxPending
          /\ pending' = [pending EXCEPT !.query = @ + 1]
          /\ last' = RecOp("toggleOn", FALSE)
          /\ UNCHANGED <<isRecording, session>>
  /\ UNCHANGED <<storeVars, listVars, permission, mounted, results>>

\* navigator.permissions.query settles for a waiting toggleRecording
QueryResolve(throws) ==
  /\ pending.query > 0
  /\ last' = RecOp("query", ~throws)
  /\ IF throws \/ QueryOutcome(permission) = "false"
     THEN /\ pending' = [pending EXCEPT !.query = @ - 1]
          /\ UNCHANGED <<isRecording, session>>
     ELSE IF QueryOutcome(permission) = "ask"
     THEN /\ pending' = [pending EXCEPT !.query = @ - 1, !.prompt = @ + 1]
          /\ UNCHANGED <<isRecording, session>>
     ELSE /\ pending' = [pending EXCEPT !.query = @ - 1]
          /\ StartRecording
  /\ UNCHANGED <<storeVars, listVars, permission, mounted, results>>

\* navigator.mediaDevices.getUserMedia settles with the user's answer; a blocked
\* microphone cannot be granted
PromptResolve(granted, remembered) ==
  /\ pending.prompt > 0
  /\ granted => permission # "denied"
  /\ pending' = [pending EXCEPT !.prompt = @ - 1]
  /\ last' = RecOp("prompt", granted)
  /\ permission' = IF ~remembered THEN permission
                   ELSE IF granted THEN "granted" ELSE "denied"
  /\ IF granted THEN StartRecording ELSE UNCHANGED <<isRecording, session>>
  /\ UNCHANGED <<storeVars, listVars, mounted, results>>

\* the user changes the microphone permission in the browser settings
PermissionChange(state) ==
  /\ permission # state
  /\ permission' = state
  /\ last' = RecOp("permission", FALSE)
  /\ UNCHANGED <<storeVars, listVars, isRecording, session, pending, mounted, results>>

\* recognition.onresult: the platform appends a result to event.results or revises
\* the latest one
SpeechResult(segment, revise) ==
  /\ session = "running"
  /\ IF revise
     THEN results # <<>> /\ results' = [results EXCEPT ![Len(results)] = segment]
     ELSE Len(results) < MaxResults /\ results' = Append(results, segment)
  /\ formData' = IF mounted
                 THEN [formData EXCEPT !.content = CleanTranscript(results')]
                 ELSE formData
  /\ last' = RecOp("result", FALSE)
  /\ UNCHANGED <<notes, persisted, selectedNote, selectedIsRef, now, nextId, creates,
                 deletes, listVars, isRecording, session, pending, permission, mounted>>

\* recognition.onerror; the platform ends the session it reports an error for
SpeechError ==
  /\ session = "running"
  /\ session' = "idle"
  /\ isRecording' = IF mounted THEN FALSE ELSE isRecording
  /\ last' = RecOp("error", FALSE)
  /\ UNCHANGED <<storeVars, listVars, pending, permission, mounted, results>>

\* the speech-recognition effect's cleanup
Teardown ==
  /\ mounted
  /\ mounted' = FALSE
  /\ session' = StopSession(session)
  /\ last' = RecOp("teardown", FALSE)
  /\ UNCHANGED <<storeVars, listVars, isRecording, pending, permission, results>>

\* NoteEditor mounting, with or without webkitSpeechRecognition in window
InitRec ==
  /\ InitStore
  /\ ListIdle
  /\ RecMounted
  /\ session \in {"none", "idle"}

RecSegments == {<<"H", "i", ".">>, <<"H", "i", ".", " ", "y", "o", "u">>}

NextRec ==
  \/ ToggleRecording
  \/ \E throws \in BOOLEAN : QueryResolve(throws)
  \/ \E granted \in BOOLEAN, remembered \in BOOLEAN : PromptResolve(granted, remembered)
  \/ \E state \in {"granted", "denied", "prompt"} : PermissionChange(state)
  \/ \E segment \in RecSegments, revise \in BOOLEAN : SpeechResult(segment, revise)
  \/ SpeechError
  \/ Teardown

SpecRec == InitRec /\ [][NextRec]_vars

(***************************************************************************)
(* The transcript clean-up on its own: the editor while a session runs.    *)
(***************************************************************************)
RECURSIVE StringsUpTo(_, _)
StringsUpTo(alphabet, n) ==
  IF n = 0 THEN {<<>>}
  ELSE StringsUpTo(alphabet, n - 1)
         \cup {Append(w, c) : w \in StringsUpTo(alphabet, n - 1), c \in alphabet}

HelloDot == <<"H", "e", "l", "l", "o", ".">>
HelloWorldDot ==
  <<"H", "e", "l", "l", "o", ".", " ", "W", "o", "r", "l", "d", ".">>

\* what the platform may deliver as the transcript of one result
Segments ==
  StringsUpTo({"a", "."}, MaxSegLen)
    \cup {<<" ">>, <<" ", "a", " ">>, <<"a", " ", "a", ".">>, HelloDot, HelloWorldDot,
          <<"a", ".", "\n", "a", "\t", ".">>}

\* NoteEditor while recording: the permission is granted and the session started
InitTranscript ==
  /\ InitStore
  /\ ListIdle
  /\ isRecording = TRUE /\ session = "running"
  /\ pending = [query |-> 0, prompt |-> 0]
  /\ permission = "granted" /\ mounted = TRUE /\ results = <<>>

NextTranscript ==
  \/ \E c \in TypedContents : SetContent(c)
  \/ \E segment \in Segments, revise \in BOOLEAN : SpeechResult(segment, revise)

SpecTranscript == InitTranscript /\ [][NextTranscript]_vars

(***************************************************************************)
(* The content clean-up when the content field loses focus (NoteEditor).   *)
(***************************************************************************)
\* formatContent: cleanContent, the content's sentences rejoined
CleanContent(content) ==
  Join(SelectSeq(TrimAll(Split(content, ".")), LAMBDA sentence : sentence # EmptyStr),
       <<".", " ">>)

\* formatContent: the content it stores, cleanContent + '.'
FormattedContent(content) == CleanContent(content) \o <<".">>

\* the content textarea's onBlur
FormatContent ==
  /\ formData' = [formData EXCEPT !.content = FormattedContent(formData.content)]
  /\ last' = Op("blur", 0)
  /\ UNCHANGED <<notes, persisted, selectedNote, selectedIsRef, now, nextId,
                 creates, deletes, listVars, recVars>>

\* what the user may have typed into the content field
FieldContents ==
  StringsUpTo({"a", " ", "."}, MaxContentLen)
    \cup {<<"a", ".", "a">>, <<" ", "a", " ", ".", ".", "a", " ">>,
          <<"\n">>, <<"a", ".", "\n", "b">>}

InitFormat == Init

NextFormat ==
  \/ \E t \in TypedTitles : SetTitle(t)
  \/ \E c \in FieldContents : SetContent(c)
  \/ FormatContent
  \/ HandleSubmit

SpecFormat == InitFormat /\ [][NextFormat]_vars

(***************************************************************************)
(* Claims about the coordinator and the editor's submit path (SpecStore,   *)
(* SpecUpdate, Spec).                                                      *)
(***************************************************************************)
\* a string that is empty or holds white space only
IsBlank(s) == \A k \in DOMAIN s : s[k] \in WhiteSpace

\* the positions of the records of ns carrying id
Carrying(ns, id) == {k \in DOMAIN ns : ns[k].id = id}

\* C1: starting from an empty store, after any sequence of create-saves,
\* update-saves, favorite toggles and delete requests (confirmed or declined)
\* the persisted collection, like the one in memory, holds as many notes as there
\* were create-saves minus confirmed deletes; update-saves, toggles and declined
\* deletes count as neither, so they never change the size.
C1_SizeIsCreatesMinusDeletes ==
  /\ Len(persisted) = creates - deletes
  /\ Len(notes) = creates - deletes

\* C1 witness: two create-saves and one confirmed delete have happened and a
\* favorite toggle has just run on the note that is left.
C1_Witness ==
  /\ creates = 2 /\ deletes = 1 /\ Len(persisted) = 1
  /\ last.op = "toggle"

\* C2: a submit while the draft's title or content is empty or white space only
\* is rejected: save is not invoked, and the collection, the persisted snapshot
\* and the selection stay as they are, with or without a selected note.
C2_BlankSubmitIsNoOp ==
  [][(last'.op \in {"rejected", "create", "update"}
       /\ (IsBlank(formData.title) \/ IsBlank(formData.content)))
      => (/\ last'.op = "rejected"
          /\ notes' = notes
          /\ persisted' = persisted
          /\ selectedNote' = selectedNote)]_vars

\* C2 witness: a submit was rejected while a note was selected and the draft's
\* content was white space only, with two notes in the collection.
C2_Witness ==
  /\ last.op = "rejected"
  /\ selectedNote # NoNote
  /\ formData.content = WhiteSpaceOnly
  /\ ~IsBlank(formData.title)
  /\ Len(notes) = 2

\* C3: toggleFavorite(id) flips the favorite flag of the one record carrying id,
\* changes no other field of it (updatedAt included) and no other record, and
\* toggling the same note again gives back the collection as it was.
C3_ToggleFlipsOnlyFavorite ==
  [][last'.op = "toggle"
      => (/\ Cardinality(Carrying(notes, last'.id)) = 1
          /\ DOMAIN notes' = DOMAIN notes
          /\ \A k \in DOMAIN notes :
               notes'[k] = IF k \in Carrying(notes, last'.id)
                           THEN [notes[k] EXCEPT !.favorite = ~notes[k].favorite]
                           ELSE notes[k]
          /\ FlipFavorite(notes', last'.id) = notes)]_vars

\* C3 witness: a toggle has just run on a note of a two-note collection, the note
\* was a favorite before it, and its updatedAt is older than the clock.
C3_Witness ==
  /\ last.op = "toggle"
  /\ Len(notes) = 2
  /\ \E k \in Carrying(notes, last.id) :
       notes[k].favorite = FALSE /\ notes[k].updatedAt.date < now

\* C4: with a note selected, a save replaces the title, content and tags of the
\* one record carrying the selection's id by the draft's and sets its updatedAt
\* to the current time; its id, createdAt and favorite keep their stored values,
\* every other record and the order are unchanged, and the selection is cleared.
C4_UpdateMergesDraft ==
  [][last'.op = "update"
      => (/\ Cardinality(Carrying(notes, selectedNote.id)) = 1
          /\ DOMAIN notes' = DOMAIN notes
          /\ \A k \in DOMAIN notes :
               notes'[k] = IF k \in Carrying(notes, selectedNote.id)
                           THEN [id |-> notes[k].id,
                                 createdAt |-> notes[k].createdAt,
                                 favorite |-> notes[k].favorite,
                                 title |-> formData.title,
                                 content |-> formData.content,
                                 tags |-> formData.tags,
                                 updatedAt |-> [date |-> now]]
                           ELSE notes[k]
          /\ selectedNote' = NoNote)]_vars

\* C4 witness: an update-save has just run on a note of a two-note collection
\* whose stored favorite differs from the one the selection had captured, whose
\* updatedAt is later than its createdAt and whose tags were edited.
C4_Witness ==
  /\ last.op = "update"
  /\ Len(notes) = 2
  /\ selectedNote = NoNote
  /\ \E k \in Carrying(notes, last.id) :
       /\ notes[k].favorite # last.snapFavorite
       /\ notes[k].updatedAt.date > notes[k].createdAt.date
       /\ notes[k].tags = <<Meeting, Meeting, TagQ>>

\* C5: a declined delete request leaves the collection, the persisted snapshot
\* and the selection unchanged; an accepted one removes exactly the record with
\* the given id, keeps the other records and their order, and clears the
\* selection exactly when the deleted note was the selected one.
C5_DeleteOnlyWhenConfirmed ==
  [][/\ last'.op = "deleteDeclined"
        => (notes' = notes /\ persisted' = persisted /\ selectedNote' = selectedNote)
     /\ last'.op = "delete"
        => (/\ \E k \in DOMAIN notes :
                 /\ Carrying(notes, last'.id) = {k}
                 /\ notes' = SubSeq(notes, 1, k - 1) \o SubSeq(notes, k + 1, Len(notes))
            /\ persisted' = JSONStringify(notes')
            /\ selectedNote' = IF selectedNote.id = last'.id
                               THEN NoNote ELSE selectedNote)]_vars

\* C5 witness: an accepted delete has just removed one of two notes while the
\* other one was selected, and the selection is still there.
C5_Witness ==
  /\ last.op = "delete"
  /\ Len(notes) = 1
  /\ selectedNote # NoNote
  /\ selectedNote.id = notes[1].id

\* C6: with no note selected and an empty collection, saving the draft with title
\* "Standup", content "We shipped X." and the template's tags gives a collection
\* of one note whose tags are exactly <<"meeting">> and whose favorite is false.
C6_CreateScenario ==
  [][(/\ last'.op = "create"
      /\ notes = <<>>
      /\ formData = [title |-> Standup, content |-> WeShippedX,
                     tags |-> Template(now).tags])
      => (/\ Len(notes') = 1
          /\ notes'[1].tags = <<Meeting>>
          /\ notes'[1].favorite = FALSE)]_vars

(***************************************************************************)
(* Claims about the note list (SpecList).                                  *)
(***************************************************************************)
\* the notes of the visible sequence
Visible == {FilteredNotes(notes, searchTerm, selectedTag)[k] :
              k \in DOMAIN FilteredNotes(notes, searchTerm, selectedTag)}

CarriesTag(note, tag) == \E k \in DOMAIN note.tags : note.tags[k] = tag

\* a cased letter stands before position k of s, with nothing but
\* case-ignorable characters in between
AfterCased(s, k) ==
  \E j \in 1..(k - 1) :
    s[j] \in Cased /\ \A i \in (j + 1)..(k - 1) : s[i] \in CaseIgnorable

\* a cased letter stands after position k of s, with nothing but case-ignorable
\* characters in between
BeforeCased(s, k) ==
  \E j \in (k + 1)..Len(s) :
    s[j] \in Cased /\ \A i \in (k + 1)..(j - 1) : s[i] \in CaseIgnorable

\* s in lower case: every letter by itself, but a capital sigma that ends a word
\* becomes the final sigma
LowerCased(s) ==
  [k \in DOMAIN s |->
     IF s[k] = "Σ" /\ AfterCased(s, k) /\ ~BeforeCased(s, k)
     THEN "ς" ELSE LowerChar(s[k])]

\* text occurs in s once both are in lower case
OccursIn(text, s) ==
  LET low == LowerCased(s)
      sub == LowerCased(text)
  IN \E from \in 1..(Len(low) + 1) : \E to \in (from - 1)..Len(low) :
       /\ to - from + 1 = Len(sub)
       /\ \A k \in 1..Len(sub) : low[from + k - 1] = sub[k]

\* C7 as stated: with a tag selected, the visible sequence is empty if no note
\* carries the tag, and every note carrying it is visible, whatever the search
\* term.
C7_TagFilterIgnoresSearch ==
  selectedTag # NullTag =>
    /\ (\A k \in DOMAIN notes : ~CarriesTag(notes[k], selectedTag)) => Visible = {}
    /\ \A k \in DOMAIN notes :
         CarriesTag(notes[k], selectedTag) => notes[k] \in Visible

\* C7 amended: with a tag selected, the visible sequence is empty if no note
\* carries the tag, and a note carrying it is visible exactly when the search
\* term is empty or occurs, both in lower case, in its title, its content or
\* one of its tags.
C7_TagFilterWithSearch ==
  selectedTag # NullTag =>
    /\ (\A k \in DOMAIN notes : ~CarriesTag(notes[k], selectedTag)) => Visible = {}
    /\ \A k \in DOMAIN notes :
         CarriesTag(notes[k], selectedTag) =>
           (notes[k] \in Visible <=>
              \/ searchTerm = EmptyStr
              \/ OccursIn(searchTerm, notes[k].title)
              \/ OccursIn(searchTerm, notes[k].content)
              \/ \E j \in DOMAIN notes[k].tags : OccursIn(searchTerm, notes[k].tags[j]))

\* C7 witness: a tag is selected and the search term is not empty; one note
\* carrying the tag matches the term only by letter case folding and is visible,
\* another note carrying the tag does not match and is hidden.
C7_Witness ==
  /\ selectedTag = Meeting
  /\ searchTerm = <<"B">>
  /\ Len(notes) = 2
  /\ CarriesTag(notes[1], selectedTag) /\ notes[1] \in Visible
  /\ ~StrIncludes(notes[1].title, searchTerm)
  /\ CarriesTag(notes[2], selectedTag) /\ notes[2] \notin Visible

(***************************************************************************)
(* Claims about the recording state and the speech session (SpecRec).      *)
(***************************************************************************)
\* the step is the permission check of a toggle coming back granted: the query
\* found the permission granted, or the prompt was answered with a grant
GrantedStep ==
  \/ last'.op = "query" /\ last'.answer /\ permission = "granted"
  \/ last'.op = "prompt" /\ last'.answer

\* the step is the permission check of a toggle coming back denied: the query
\* found the permission denied, or the prompt was answered with a refusal
DeniedStep ==
  \/ last'.op = "query" /\ last'.answer /\ permission = "denied"
  \/ last'.op = "prompt" /\ ~last'.answer

\* C8: the recording state goes Idle -> Recording -> Idle only. It becomes
\* Recording only from Idle, in the step where a toggle's permission check comes
\* back granted, and the session starts only in such a step; a toggle whose check
\* comes back denied changes neither the recording state nor the session, so an
\* Idle editor stays Idle; a toggle in Recording, and any recognition error,
\* leave the state Idle.
C8_RecordingStateMachine ==
  [][/\ (isRecording' /\ ~isRecording) => (GrantedStep /\ session' = "running")
     /\ (session' = "running" /\ session # "running") => GrantedStep
     /\ DeniedStep => (isRecording' = isRecording /\ session' = session)
     /\ last'.op = "toggleOff" => (isRecording /\ ~isRecording')
     /\ (last'.op = "error" /\ mounted) => ~isRecording']_vars

\* C8 witness: the editor is Recording with a running session after a prompt
\* that was answered with a grant, while the permission had been undetermined.
C8_Witness ==
  /\ last.op = "prompt" /\ last.answer
  /\ isRecording /\ session = "running"
  /\ mounted

\* C9: right after a toggle-off, and at any time after the component's teardown,
\* the speech session is not running (so that no transcript event can follow).
C9_NoSessionAfterStop ==
  (last.op = "toggleOff" \/ ~mounted) => session # "running"

(***************************************************************************)
(* Claims about the transcript clean-up (SpecTranscript).                  *)
(***************************************************************************)
\* the pieces of text between its periods, read character by character
RECURSIVE Pieces(_, _)
Pieces(text, piece) ==
  IF text = <<>> THEN <<piece>>
  ELSE IF Head(text) = "." THEN <<piece>> \o Pieces(Tail(text), <<>>)
  ELSE Pieces(Tail(text), Append(piece, Head(text)))

\* s without the white space around it
Stripped(s) ==
  IF IsBlank(s) THEN <<>>
  ELSE LET first == CHOOSE k \in DOMAIN s :
                      s[k] \notin WhiteSpace /\ \A i \in 1..(k - 1) : s[i] \in WhiteSpace
           final == CHOOSE k \in DOMAIN s :
                      s[k] \notin WhiteSpace /\ \A i \in (k + 1)..Len(s) : s[i] \in WhiteSpace
       IN SubSeq(s, first, final)

\* the sentences of text: its pieces, stripped, the empty ones dropped
RECURSIVE SentencesOf(_)
SentencesOf(pieces) ==
  IF pieces = <<>> THEN <<>>
  ELSE (IF Stripped(Head(pieces)) = <<>> THEN <<>> ELSE <<Stripped(Head(pieces))>>)
         \o SentencesOf(Tail(pieces))

\* seq with every element kept at its first occurrence only
RECURSIVE FirstOccurrences(_, _)
FirstOccurrences(seq, seen) ==
  IF seq = <<>> THEN <<>>
  ELSE IF Head(seq) \in seen THEN FirstOccurrences(Tail(seq), seen)
  ELSE <<Head(seq)>> \o FirstOccurrences(Tail(seq), seen \cup {Head(seq)})

\* the segments with one space between them
RECURSIVE Spaced(_)
Spaced(res) ==
  IF res = <<>> THEN <<>>
  ELSE IF Tail(res) = <<>> THEN Head(res)
  ELSE Head(res) \o <<" ">> \o Spaced(Tail(res))

\* the sentences, each followed by ". " except the last
RECURSIVE Rejoined(_)
Rejoined(sentences) ==
  IF sentences = <<>> THEN <<>>
  ELSE IF Tail(sentences) = <<>> THEN Head(sentences)
  ELSE Head(sentences) \o <<".", " ">> \o Rejoined(Tail(sentences))

NoRepeats(seq) == \A i, j \in DOMAIN seq : seq[i] = seq[j] => i = j

\* C10: after a transcript event the draft content is computed from the event's
\* result segments alone, whatever the content was before: the segments joined,
\* split on periods, trimmed, empty pieces dropped, every sentence kept at its
\* first occurrence, rejoined with ". ". The results <<"Hello.">> give "Hello",
\* <<"Hello. World.">> and <<"Hello.", "Hello. World.">> give "Hello. World", and
\* no sentence occurs twice in the content.
C10_TranscriptReplacesContent ==
  last.op = "result" =>
    /\ formData.content =
         Rejoined(FirstOccurrences(SentencesOf(Pieces(Spaced(results), <<>>)), {}))
    /\ NoRepeats(SentencesOf(Pieces(formData.content, <<>>)))
    /\ results = <<HelloDot>> => formData.content = <<"H", "e", "l", "l", "o">>
    /\ results \in {<<HelloWorldDot>>, <<HelloDot, HelloWorldDot>>}
         => formData.content =
              <<"H", "e", "l", "l", "o", ".", " ", "W", "o", "r", "l", "d">>

\* C10 witness: the second increment of the scenario has just arrived, over a
\* repeated sentence, and the content is "Hello. World".
C10_Witness ==
  /\ last.op = "result"
  /\ results = <<HelloDot, HelloWorldDot>>
  /\ formData.content = <<"H", "e", "l", "l", "o", ".", " ", "W", "o", "r", "l", "d">>

(***************************************************************************)
(* Claims about the content clean-up on blur (SpecFormat).                 *)
(***************************************************************************)
\* a string made of white space and periods only, the empty string included
OnlySpaceAndPeriods(s) == \A k \in DOMAIN s : s[k] \in WhiteSpace \cup {"."}

\* a blur step, measured against the content before it
C11_FormatStep ==
  last'.op = "blur" =>
    /\ formData'.content = Rejoined(SentencesOf(Pieces(formData.content, <<>>)))
    /\ OnlySpaceAndPeriods(formData.content) => formData'.content = EmptyStr
    /\ FormattedContent(formData'.content) = formData'.content

\* C11: when the content field loses focus, the draft content becomes exactly
\* its period-separated segments, each trimmed, the empty ones dropped, rejoined
\* with ". " and nothing else added; content that is empty or holds only white
\* space and periods is empty afterwards; and formatting the result again
\* leaves it as it is.
C11_FormatRejoinsSentences == [][C11_FormatStep]_vars

====
